---- MODULE Spec2Model ----
(***************************************************************************)
(* A model of the Salesforce org-to-org migration scripts.                 *)
(*                                                                         *)
(* Each script is a sequential batch job.  The model has one group of      *)
(* variables per modelled routine and one specification per routine:       *)
(*                                                                         *)
(*   SpecRetry    utils/retry_utils.py   retry_salesforce_operation,       *)
(*                                       safe_query, safe_bulk_insert      *)
(*   SpecMappings mappings.py            fetch_target_mappings             *)
(*                fetchCDL1.py           build_target_map_for_chunk        *)
(*   SpecOwners   mappings.py            build_owner_mapping,              *)
(*                                       fetch_createdByIds                *)
(*   SpecExport   activity_export1.py    export_activity                   *)
(*   SpecImport   activity_import2.py    import_activities,                *)
(*                                       bulk_insert_with_retry            *)
(*   SpecRelated  reletedDataHelper.py   migrate_attachments, migrate_feed *)
(*                reletedDataMain.py     process_file with migrate_files   *)
(*   SpecMain     reletedDataMain.py     main over INPUT_FILES, run twice  *)
(*   SpecEligible FeedItemMigration.py   migrate_feeditems                 *)
(*                EmailMessageMigration.py  export_activity                *)
(*   SpecQueryAll CdlMigration.py        query_all                         *)
(*                fetchCDL1.py           safe_query_all                    *)
(*   SpecLoops    the retry loops of SpecRetry, SpecQueryAll, SpecImport   *)
(*                and insert_emailmessages_with_retry, side by side        *)
(*   SpecParallel CdlMigration.py, MigrateCDlPart2.py  migrate_versions    *)
(*                                       and its worker threads            *)
(*   SpecResume   MigrateCDlPart2.py     migrate_versions, stopped and     *)
(*                                       started again                     *)
(*   SpecChunks   fetchCDL1.py chunked, getEmailTemplate.py chunks         *)
(*   SpecCdl      fetchCDL1.py           main                              *)
(*   SpecMask     dataMasking.py         data_masking_batch                *)
(*   SpecBuild    activity_import2.py    build_record                      *)
(*                EmailMessageMigration.py, getEmailTemplate.py            *)
(*                                       the payload of export_activity,   *)
(*                                       sanitize_for_insert               *)
(*   SpecImg      mappings.py, FeedItemMigration.py                        *)
(*                                       related_recordid_mapping          *)
(*                                                                         *)
(* A specification starts its own routine on inputs drawn from small sets  *)
(* and leaves the variables of the other routines at rest.                 *)
(*                                                                         *)
(* Remote calls (query, create, bulk insert) are the environment: each     *)
(* either returns or raises, chosen nondeterministically.                  *)
(***************************************************************************)
EXTENDS Integers, Sequences, FiniteSets, TLC

\* Python's None.
None == <<"None">>

RECURSIVE Pow2(_)
Pow2(n) == IF n <= 0 THEN 1 ELSE 2 * Pow2(n - 1)

(***************************************************************************)
(* Bounds of the model.                                                    *)
(***************************************************************************)
\* max_retries is drawn from 0..MaxRetries.
MaxRetries == 2
\* delay (the base delay, in seconds) is drawn from 1..MaxDelay.
MaxDelay == 2
\* safe_bulk_insert is given 0..MaxBulkRecords records.
MaxBulkRecords == 2
\* Source-org record ids are 1..MaxSrcIds.
MaxSrcIds == 3
\* An id list handed to a mapping routine has at most MaxIdList entries.
MaxIdList == 3
\* The target org holds the records 1..MaxTargetRecs of the queried object.
MaxTargetRecs == 2
\* SOQL_SIZE is 500 in mappings.py:8; scaled down so that short id lists
\* still span several chunks.
SOQL_SIZE == 2
\* Owner ids: users 005-1..MaxOwnersPerKind, groups 00G-1..MaxOwnersPerKind.
MaxOwnersPerKind == 1
\* ownerIds / createdByIds hold at most MaxOwnerList ids.
MaxOwnerList == 2
\* batch_size is 500 in mappings.py:54 and :90; scaled down so that short id
\* lists still span several chunks.
OwnerBatchSize == 1
\* The source query of export_activity returns at most MaxActivities records.
MaxActivities == 2
\* The mapping CSV of import_activities has at most MaxRows rows.
MaxRows == 3
\* batch_size is 200 at activity_import2.py:218; scaled down so that a
\* round of bulk_insert_with_retry can span several sub-batches.
ImportBatchSize == 1
\* max_retries=3 at the call of bulk_insert_with_retry.
ImportMaxRetries == 3
\* A direct call of migrate_attachments or migrate_feed is given at most
\* MaxRelActivities activity ids; the input file of process_file lists
\* MaxRelActivities activities.
MaxRelActivities == 2
\* At most MaxFaults remote calls fail during one run.
MaxFaults == 2
\* CHUNK_SIZE_API is 200 and CHUNK_SIZE_ACTIVITIES is 50 in
\* reletedDataHelper.py:17-18; scaled down so that a few records span
\* several batches and chunks.
CHUNK_SIZE_API == 1
CHUNK_SIZE_ACTIVITIES == 1
\* The source org holds at most MaxLinks ContentDocumentLinks.
MaxLinks == 3
\* reletedDataHelper.py:19
SOQL_IN_LIMIT == 1000

\* FeedItemMigration.py / EmailMessageMigration.py: source records with a
\* parent, at most.
MaxParented == 2
\* FeedItemMigration.py BATCH_SIZE and the batch_size of export_activity
\* (200 in the source).
BATCH_SIZE == 1
\* insert_emailmessages_with_retry: max_retries.
EmMaxRetries == 3

\* reletedDataMain.py: invocations of main, at most.
MaxRuns == 2

\* CdlMigration.py:42 and fetchCDL1.py:44
MAX_RETRIES == 5
\* CdlMigration.py:43 (RETRY_SLEEP_SECS) and fetchCDL1.py:43
\* (SLEEP_BETWEEN_RETRIES)
RETRY_SLEEP_SECS == 2
\* retry_utils.py:103: max_retries of safe_query
SafeQueryMaxRetries == 3

\* CdlMigration.py / MigrateCDlPart2.py: the mapping file names at most
\* MaxParDocs ContentDocuments.
MaxParDocs == 2
\* MAX_WORKERS, CdlMigration.py:45 and MigrateCDlPart2.py:36
MAX_WORKERS == 5
\* CHUNK_SIZE, CdlMigration.py:40 (400 at MigrateCDlPart2.py:34; both hold
\* every document of the model in one chunk)
CHUNK_SIZE == 200

\* _chunk_list / chunked / chunks are given a list of at most MaxChunkItems
\* items and a chunk size of at most MaxChunkSize.
MaxChunkItems == 4
MaxChunkSize == 3
\* The longest record body, in pieces of text and markup.
MaxBodyLen == 2
\* fetchCDL1.py: the source has the Accounts 1..MaxCdlAccounts and one
\* Contact; CHUNK_SIZE is 200 at fetchCDL1.py:41, scaled down so that the
\* Accounts span several chunks.
MaxCdlAccounts == 2
CdlChunkSize == 1
\* dataMasking.py: the most records the query returns, batch_size (5000 at
\* the calls of lines 152-155, scaled down) and max_retries (line 79).
MaxMaskRecords == 3
MaskBatchSize == 2
MaskMaxRetries == 3

VARIABLES
    \* ---- utils/retry_utils.py: one call of retry_salesforce_operation ----
    r_via,          \* who called: "direct", "safe_query" or "safe_bulk_insert"
    max_retries,    \* argument max_retries
    delay,          \* argument delay
    r_failFirst,    \* the operation raises on its first r_failFirst invocations
    r_value,        \* the value the operation returns when it does not raise
    r_records,      \* safe_bulk_insert: number of records passed
    attempt,        \* loop variable of `for attempt in range(max_retries + 1)`
    r_calls,        \* number of invocations of operation_func so far
    r_waits,        \* the sequence of time.sleep(wait_time) arguments so far
    r_pc,           \* "loop", "op_returned", "op_raised", "returned", "raised"
    r_result,       \* what the caller got: a value, or the exception raised
    \* ---- mappings.py: one call of fetch_target_mappings, or ----
    \* ---- fetchCDL1.py: one call of build_target_map_for_chunk ----
    f_fn,           \* which of the two routines runs
    parent_list,    \* list(source_parent_ids)
    f_target,       \* target org: record id -> its Card_Legacy_Id__c
    f_i,            \* loop variable i of `for i in range(0, len, SOQL_SIZE)`
    mapping,        \* the dict being built
    f_queries,      \* the chunks queried so far, in order
    f_failed,       \* the values of i whose query raised
    f_pc,           \* "loop", "returned", "raised"
    \* ---- mappings.py: one call of build_owner_mapping or fetch_createdByIds ----
    o_fn,           \* which of the two routines runs
    id_list,        \* list(ownerIds) / list(createdByIds)
    o_srcGroups,    \* source org: group id -> DeveloperName of the queue, None
                    \* for a queue without one, NotAQueue for other groups
    o_tgtUsers,     \* target org: the legacy ids for which a User exists
    o_tgtQueues,    \* target org: the DeveloperNames for which a Queue exists
    group_mapping,  \* build_owner_mapping: source group id -> target queue id
    owner_mapping,  \* owner_mapping / user_mapping being built
    o_i,            \* loop variable i of the chunk loop
    o_pc,           \* "start", "loop", "returned", "raised"
    \* ---- activity_export1.py: one call of export_activity ----
    e_source,       \* source org: the activities matching the object's condition
    con_ids,        \* source org: the Contacts of eligible Accounts
    e_eligible,     \* source org: the parent ids meeting OBJECT_CONDITIONS
    e_target,       \* target org: <<object, legacy id>> of the migrated records
    valid_activities,
    what_ids_by_type,
    who_ids,
    parent_mappings,
    e_todo,         \* object types of what_ids_by_type not yet resolved
    e_lookups,      \* <<object, id>>: id was looked up in the target's object table
    e_rows,         \* rows written: <<file, activity, tgt_what, tgt_who>>
    e_pc,           \* "fetch", "what", "who", "write", "done", "raised"
    \* ---- activity_import2.py: one call of import_activities ----
    mappings,       \* rows of the mapping CSV
    i_found,        \* source org: the activity ids that still exist
    records_to_insert,  \* the records built, each named by its Card_Legacy_Id__c
    logs,
    to_retry,       \* bulk_insert_with_retry: the retry queue
    all_results,    \* bulk_insert_with_retry: the results accumulated
    i_attempt,      \* bulk_insert_with_retry: attempt
    i_rounds,       \* the records submitted in each round, in order
    i_created,      \* target org: <<Id, Card_Legacy_Id__c>> of the activities created
    log_csv,        \* the log file: None until written, then its rows
    i_pc,           \* "prepare", "insert", "log", "done", "raised"
    \* ---- reletedDataHelper.py / reletedDataMain.py: one run ----
    rel_fn,         \* "migrate_attachments", "migrate_feed" or "process_file"
    src_activity_ids,   \* argument src_activity_ids (process_file: src_chunk)
    activity_map,
    results_out,    \* argument results_out (process_file: all_results)
    s_attachments,  \* source org: Attachment Id -> ParentId
    s_feeditems,    \* source org: FeedItem Id -> ParentId
    s_comments,     \* source org: FeedComment Id -> FeedItemId
    fetched,        \* the source records the queries have returned
    valid_attachments,  \* migrate_attachments: the attachments not yet processed
    feeditems_by_parent,    \* migrate_feed: <<src_parent, fi_list>> not yet inserted
    source_to_target_fi,
    to_insert_comments, \* migrate_feed: <<comment, tgt_fi>> not yet inserted
    t_requests,     \* target org: the create requests received, in order
    faults,         \* the remote calls that have failed so far
    rel_pc,
    src_ids_all,    \* process_file: the activities of the input file
    start,          \* process_file: offset of the current chunk
    s_links,        \* source org: ContentDocumentLinks <<document, entity>>
    s_versions,     \* source org: the documents that have a latest version
    t_users,        \* target org: the source users that have a target User
    doc_cache,      \* migrate_files.doc_cache
    file_map,
    links_by_document,  \* migrate_files: <<document, links>> not yet processed
    document_links, \* migrate_files: links of the current document not yet processed
    global_user_mappings,
    cur_doc,        \* migrate_files: src_doc_id, tgt_doc_id, tgt_ver_id, src_ver_id
    t_links,        \* target org: ContentDocumentLinks <<document, entity, row>>
    output_csv,     \* the checkpoint files: input file -> the rows last written
    \* ---- FeedItemMigration.py: one call of migrate_feeditems, or ----
    \* ---- EmailMessageMigration.py: one call of export_activity ----
    g_fn,           \* which of the two routines runs
    g_source,       \* source org: record id -> its parent, and whether the
                    \* record is flawed (a FeedItem body with "status changed
                    \* to", an EmailMessage with an unmapped template)
    g_eligible,     \* source org: the parents meeting the object's condition
                    \* (ServiceAppointment: condition 1)
    g_eligible2,    \* source org: the ServiceAppointments meeting condition 2
    g_target,       \* target org: the parents (legacy ids) that have a record
    filtered,       \* filtered_feeditems / em_records
    all_mappings,   \* all_mappings / relatedTo_mappings
    prepared_records,   \* the records still to insert
    g_attempt,      \* insert_emailmessages_with_retry: attempt
    g_requests,     \* target org: the insert batches received, in order
    g_results,      \* result rows <<source id, target id, status>>
    g_pc,           \* "fetch", "mappings", "insert", "done", "raised"
    \* ---- reletedDataMain.py: main ----
    files_dir,      \* the mapping files that exist: name -> its Source_Activity_Id
                    \* column after dropna and drop_duplicates
    input_files,    \* INPUT_FILES
    file_no,        \* position of input_file in INPUT_FILES; 0 outside main
    processed_files,
    failed_files,
    m_run,          \* which invocation of main this is
    \* ---- CdlMigration.py: one call of query_all, or ----
    \* ---- fetchCDL1.py: one call of safe_query_all ----
    q_fn,           \* which of the two routines runs
    q_failFirst,    \* the org's query raises on its first q_failFirst invocations
    attempts,       \* local variable attempts (safe_query_all: attempt)
    q_calls,        \* calls of the wrapped sf.query_all / safe_query so far
    q_remote,       \* invocations of the org's query so far
    q_waits,        \* the sequence of time.sleep(wait) arguments so far
    q_pc,           \* "loop", "returned", "raised"
    \* ---- CdlMigration.py / MigrateCDlPart2.py: one call of migrate_versions ----
    p_fn,           \* which of the two scripts runs
    by_doc,         \* by_doc / mapping_dict: document -> its mapping rows
    link_meta,      \* link_meta: the documents whose link metadata was fetched
    latest_by_doc,  \* the documents for which the source has a latest version
    p_c,            \* offset of the current chunk of documents
    futures,        \* document -> where its worker is
    w_results,      \* document -> the worker's local results
    w_row,          \* document -> the row of rows_for_doc the worker is at
    p_results,      \* the shared list results
    p_csv,          \* the rows written through the shared csv writer
    p_writes,       \* <<thread, object>>: thread has mutated the shared object
    p_reads,        \* <<thread, object>>: thread has read the shared object
    p_pc,           \* "submit", "collect", "done"
    t_versions,     \* target org: document -> the ContentVersions created from it
    t_cdls,         \* target org: <<document, row>> of the ContentDocumentLinks created
    p_run,          \* which invocation of the script this is
    \* ---- reletedDataHelper.py: _chunk_list, fetchCDL1.py: chunked, ----
    \* ---- getEmailTemplate.py: chunks: one run of the generator ----
    c_fn,           \* which of the three generators runs
    c_items,        \* argument items / iterable / lst
    c_size,         \* argument size / n
    c_i,            \* loop variable i of `for i in range(0, len(items), size)`
    c_chunks,       \* the chunks yielded so far, in order
    c_pc,           \* "loop", "done"
    \* ---- activity_import2.py: build_record; EmailMessageMigration.py and ----
    \* ---- getEmailTemplate.py: the insert object of export_activity; ----
    \* ---- getEmailTemplate.py: sanitize_for_insert: one record ----
    b_fn,           \* which routine builds the payload
    b_object,       \* build_record: object_name
    b_input,        \* the source record as it was handed in
    b_record,       \* the source record (the argument) as it is now
    b_record_type,  \* build_record: whether get_record_type_id answers
    b_payload,      \* the insert payload built; empty until then
    b_submitted,    \* target org: the payloads received, in order
    b_pc,           \* "build", "built", "skipped", "submitted"
    \* ---- mappings.py, FeedItemMigration.py: related_recordid_mapping: ----
    \* ---- one batch of feed items or comments ----
    m_fn,           \* which variant: "mappings" or "FeedItemMigration"
    object_type,    \* mappings.py: "Item" or "Comment"
    m_input,        \* the batch as it was handed in
    m_records,      \* the batch (mutated in place)
    m_latest,       \* source org: the documents that have a latest version
    m_pc,           \* "call", "returned", "raised"
    \* ---- fetchCDL1.py: one run of main ----
    l_links,        \* source org: ContentDocumentLinks <<document, entity>>
    l_target,       \* target org: the parents and users that have a record
    l_obj,          \* position of obj in OBJECT_CONDITIONS
    l_chunks,       \* the chunks of parent_ids not yet processed
    l_out,          \* the rows written to the two files: <<row, n>> for the
                    \* n-th copy of a row
    l_pc,           \* "object", "chunk", "done", "raised"
    \* ---- dataMasking.py: one call of data_masking_batch ----
    dm_records,     \* records: the result of the query
    dm_batch,       \* batch_num
    dm_updates,     \* updates of the current batch
    dm_failed,      \* failed_records
    dm_retry,       \* retry_count
    dm_rounds,      \* the update calls of the current batch: what was sent
                    \* and the positions that came back without success
    dm_csv,         \* rows appended to FAILED_CSV
    dm_pc           \* "query", "batch", "update", "log", "done", "raised"

retryVars == <<r_via, max_retries, delay, r_failFirst, r_value, r_records,
               attempt, r_calls, r_waits, r_pc, r_result>>

ftmVars == <<f_fn, parent_list, f_target, f_i, mapping, f_queries, f_failed, f_pc>>

ownVars == <<o_fn, id_list, o_srcGroups, o_tgtUsers, o_tgtQueues, group_mapping,
             owner_mapping, o_i, o_pc>>

expVars == <<e_source, con_ids, e_eligible, e_target, valid_activities,
             what_ids_by_type, who_ids, parent_mappings, e_todo, e_lookups,
             e_rows, e_pc>>

impVars == <<mappings, i_found, records_to_insert, logs, to_retry, all_results,
             i_attempt, i_rounds, i_created, log_csv, i_pc>>

relVars == <<rel_fn, src_activity_ids, activity_map, results_out, s_attachments,
             s_feeditems, s_comments, fetched, valid_attachments, feeditems_by_parent,
             source_to_target_fi, to_insert_comments, t_requests, faults, rel_pc,
             src_ids_all, start, s_links, s_versions, t_users, doc_cache, file_map,
             links_by_document, document_links, global_user_mappings, cur_doc,
             t_links, output_csv>>

eligVars == <<g_fn, g_source, g_eligible, g_eligible2, g_target, filtered,
              all_mappings, prepared_records, g_attempt, g_requests, g_results, g_pc>>

mainVars == <<files_dir, input_files, file_no, processed_files, failed_files, m_run>>

qaVars == <<q_fn, q_failFirst, attempts, q_calls, q_remote, q_waits, q_pc>>

parVars == <<p_fn, by_doc, link_meta, latest_by_doc, p_c, futures, w_results, w_row,
             p_results, p_csv, p_writes, p_reads, p_pc, t_versions, t_cdls,
             p_run>>

chunkVars == <<c_fn, c_items, c_size, c_i, c_chunks, c_pc>>

buildVars == <<b_fn, b_object, b_input, b_record, b_record_type, b_payload,
               b_submitted, b_pc>>

imgVars == <<m_fn, object_type, m_input, m_records, m_latest, m_pc>>

cdlVars == <<l_links, l_target, l_obj, l_chunks, l_out, l_pc>>

maskVars == <<dm_records, dm_batch, dm_updates, dm_failed, dm_retry, dm_rounds, dm_csv, dm_pc>>

vars == <<retryVars, ftmVars, ownVars, expVars, impVars, relVars, eligVars, mainVars, qaVars, parVars, chunkVars, buildVars, imgVars, cdlVars, maskVars>>

\* What a routine leaves alone: the variables of all the other routines.
notRetry == <<ftmVars, ownVars, expVars, impVars, relVars, eligVars, mainVars, qaVars, parVars, chunkVars, buildVars, imgVars, cdlVars, maskVars>>
notFtm == <<retryVars, ownVars, expVars, impVars, relVars, eligVars, mainVars, qaVars, parVars, chunkVars, buildVars, imgVars, cdlVars, maskVars>>
notOwn == <<retryVars, ftmVars, expVars, impVars, relVars, eligVars, mainVars, qaVars, parVars, chunkVars, buildVars, imgVars, cdlVars, maskVars>>
notExp == <<retryVars, ftmVars, ownVars, impVars, relVars, eligVars, mainVars, qaVars, parVars, chunkVars, buildVars, imgVars, cdlVars, maskVars>>
notImp == <<retryVars, ftmVars, ownVars, expVars, relVars, eligVars, mainVars, qaVars, parVars, chunkVars, buildVars, imgVars, cdlVars, maskVars>>
notRel == <<retryVars, ftmVars, ownVars, expVars, impVars, eligVars, mainVars, qaVars, parVars, chunkVars, buildVars, imgVars, cdlVars, maskVars>>
notElig == <<retryVars, ftmVars, ownVars, expVars, impVars, relVars, mainVars, qaVars, parVars, chunkVars, buildVars, imgVars, cdlVars, maskVars>>
notMain == <<retryVars, ftmVars, ownVars, expVars, impVars, eligVars, qaVars, parVars, chunkVars, buildVars, imgVars, cdlVars, maskVars>>
notQa == <<retryVars, ftmVars, ownVars, expVars, impVars, relVars, eligVars, mainVars, parVars, chunkVars, buildVars, imgVars, cdlVars, maskVars>>
notMask == <<retryVars, ftmVars, ownVars, expVars, impVars, relVars, eligVars, mainVars, qaVars, parVars, chunkVars, buildVars, imgVars, cdlVars>>
notCdl == <<retryVars, ftmVars, ownVars, expVars, impVars, relVars, eligVars, mainVars, qaVars, parVars, chunkVars, buildVars, imgVars, maskVars>>
notImg == <<retryVars, ftmVars, ownVars, expVars, impVars, relVars, eligVars, mainVars, qaVars, parVars, chunkVars, buildVars, cdlVars, maskVars>>
notBuild == <<retryVars, ftmVars, ownVars, expVars, impVars, relVars, eligVars, mainVars, qaVars, parVars, chunkVars, imgVars, cdlVars, maskVars>>
notChunk == <<retryVars, ftmVars, ownVars, expVars, impVars, relVars, eligVars, mainVars, qaVars, parVars, buildVars, imgVars, cdlVars, maskVars>>
notPar == <<retryVars, ftmVars, ownVars, expVars, impVars, relVars, eligVars, mainVars, qaVars, chunkVars, buildVars, imgVars, cdlVars, maskVars>>

(***************************************************************************)
(* Helpers on sequences and dicts.                                         *)
(***************************************************************************)
Range(s) == {s[i] : i \in DOMAIN s}

\* All sequences over S of length at most n.
SeqsUpTo(S, n) == UNION {[1 .. k -> S] : k \in 0 .. n}

\* All sequences without repetition over S of length at most n.
DistinctSeqsUpTo(S, n) ==
    {q \in SeqsUpTo(S, n) : \A i, j \in DOMAIN q : q[i] = q[j] => i = j}

\* All orders in which the elements of the finite set S can be listed.
Orders(S) == {s \in [1 .. Cardinality(S) -> S] : Range(s) = S}

\* Python slice s[i : i + n] for a 0-based offset i.
Slice(s, i, n) ==
    LET hi == IF i + n < Len(s) THEN i + n ELSE Len(s)
    IN  [k \in 1 .. (hi - i) |-> s[i + k]]

\* [f(x) for x in s if keep(x)] for a sequence s and a set `keep` of positions.
RECURSIVE SelectAt(_, _)
SelectAt(s, keep) ==
    IF s = <<>> THEN <<>>
    ELSE LET rest == SelectAt(SubSeq(s, 1, Len(s) - 1), keep)
         IN  IF Len(s) \in keep THEN Append(rest, s[Len(s)]) ELSE rest

\* zip(a, b): the positions both have.
ZipLen(a, b) == IF Len(a) < Len(b) THEN Len(a) ELSE Len(b)

EmptyDict == <<>>

\* d[k] = v
DictSet(d, k, v) == [x \in DOMAIN d \cup {k} |-> IF x = k THEN v ELSE d[x]]

\* d.get(k): None when the key is absent.
DictGet(d, k) == IF k \in DOMAIN d THEN d[k] ELSE None

(***************************************************************************)
(* utils/retry_utils.py                                                    *)
(***************************************************************************)
RetryCallers == {"direct", "safe_query", "safe_bulk_insert"}
OperationValues == {<<"value", 1>>, <<"value", 2>>}

\* The exception raised by the n-th invocation of the operation; str(e),
\* its message, is the second component, distinct per invocation.
Exc(n) == <<"Exception", n>>

\* The operation_func under test: raises on its first failFirst invocations
\* and returns value from then on.
OperationRaises(n) == n <= r_failFirst

\* range(max_retries + 1)
AttemptsMutant(m) == 0 .. (m - 1)
Attempts(m) == 0 .. m

\* `if attempt == max_retries:` in the except handler
IsLastAttemptMutant(a, m) == a = m - 1
IsLastAttempt(a, m) == a = m

\* wait_time = delay * (2 ** attempt)
WaitTime(d, a) == d * Pow2(a)

FailedResultsMutant(n, e) ==
    [i \in 1 .. (n - 1) |-> [success |-> FALSE, id |-> None, errors |-> <<e[2]>>]]

\* [{"success": False, "id": None, "errors": [str(e)]} for _ in records]
FailedResults(n, e) ==
    [i \in 1 .. n |-> [success |-> FALSE, id |-> None, errors |-> <<e[2]>>]]

RetryIdle ==
    /\ r_via = "direct" /\ max_retries = 0 /\ delay = 1 /\ r_failFirst = 0
    /\ r_value = <<"value", 1>> /\ r_records = 0 /\ attempt = 0 /\ r_calls = 0
    /\ r_waits = <<>> /\ r_pc = "idle" /\ r_result = None

RetryInit ==
    /\ r_via \in RetryCallers
    /\ max_retries \in 0 .. MaxRetries
    /\ delay \in 1 .. MaxDelay
    /\ r_failFirst \in 0 .. (MaxRetries + 1)
    /\ r_value \in OperationValues
    /\ r_records \in (IF r_via = "safe_bulk_insert" THEN 0 .. MaxBulkRecords ELSE {0})
    /\ attempt = 0
    /\ r_calls = 0
    /\ r_waits = <<>>
    /\ r_pc = "loop"
    /\ r_result = None

\* One iteration of the for loop of retry_salesforce_operation, or the
\* `return None` after it when the range is exhausted.
RetryIteration ==
    /\ r_pc = "loop"
    /\ IF attempt \notin Attempts(max_retries)
       THEN /\ r_pc' = "op_returned"
            /\ r_result' = None
            /\ UNCHANGED <<attempt, r_calls, r_waits>>
       ELSE /\ r_calls' = r_calls + 1
            /\ IF OperationRaises(r_calls + 1)
               THEN IF IsLastAttempt(attempt, max_retries)
                    THEN /\ r_pc' = "op_raised"          \* bare `raise`
                         /\ r_result' = Exc(r_calls + 1)
                         /\ UNCHANGED <<attempt, r_waits>>
                    ELSE /\ r_waits' = Append(r_waits, WaitTime(delay, attempt))
                         /\ attempt' = attempt + 1
                         /\ UNCHANGED <<r_pc, r_result>>
               ELSE /\ r_pc' = "op_returned"
                    /\ r_result' = r_value
                    /\ UNCHANGED <<attempt, r_waits>>
    /\ UNCHANGED <<r_via, max_retries, delay, r_failFirst, r_value, r_records>>
    /\ UNCHANGED notRetry

\* retry_salesforce_operation called directly: the caller sees its outcome.
DirectCallEnds ==
    /\ r_via = "direct"
    /\ r_pc \in {"op_returned", "op_raised"}
    /\ r_pc' = (IF r_pc = "op_returned" THEN "returned" ELSE "raised")
    /\ UNCHANGED <<r_via, max_retries, delay, r_failFirst, r_value, r_records,
                   attempt, r_calls, r_waits, r_result>>
    /\ UNCHANGED notRetry

\* safe_query: `return retry_salesforce_operation(_query, ...)`, no handler.
SafeQueryEnds ==
    /\ r_via = "safe_query"
    /\ r_pc \in {"op_returned", "op_raised"}
    /\ r_pc' = (IF r_pc = "op_returned" THEN "returned" ELSE "raised")
    /\ UNCHANGED <<r_via, max_retries, delay, r_failFirst, r_value, r_records,
                   attempt, r_calls, r_waits, r_result>>
    /\ UNCHANGED notRetry

\* safe_bulk_insert: try/except around retry_salesforce_operation; the
\* handler returns one failed result per record.
SafeBulkInsertEnds ==
    /\ r_via = "safe_bulk_insert"
    /\ r_pc \in {"op_returned", "op_raised"}
    /\ r_pc' = "returned"
    /\ r_result' = (IF r_pc = "op_raised"
                    THEN FailedResults(r_records, r_result)
                    ELSE r_result)
    /\ UNCHANGED <<r_via, max_retries, delay, r_failFirst, r_value, r_records,
                   attempt, r_calls, r_waits>>
    /\ UNCHANGED notRetry

RetryNext ==
    \/ RetryIteration
    \/ DirectCallEnds
    \/ SafeQueryEnds
    \/ SafeBulkInsertEnds

RetryEnded == r_pc \in {"returned", "raised"}

(***************************************************************************)
(* mappings.py: fetch_target_mappings                                      *)
(* fetchCDL1.py: build_target_map_for_chunk                                *)
(***************************************************************************)
SrcIds == {<<"src", n>> : n \in 1 .. MaxSrcIds}
TargetRecIds == {<<"tgt", n>> : n \in 1 .. MaxTargetRecs}

\* Card_Legacy_Id__c of a target record: a source id, or unset.
LegacyValues == SrcIds \cup {None}

\* The records `SELECT Id, Card_Legacy_Id__c FROM obj WHERE
\* Card_Legacy_Id__c IN (chunk)` returns from the target org.
QueryLegacyIn(target, chunk) ==
    {t \in DOMAIN target : target[t] \in Range(chunk)}

\* for r in results: if r.get("Card_Legacy_Id__c"): mapping[...] = r["Id"]
\* `results` lists record ids in the order the query returned them.
MergeRecordsMutant(m, target, results, chunk) ==
    LET merged == [x \in DOMAIN m \cup {target[t] : t \in Range(results)}
                        \cup Range(chunk) |->
                    IF \E t \in Range(results) : target[t] = x
                    THEN CHOOSE t \in Range(results) : target[t] = x
                    ELSE IF x \in DOMAIN m THEN m[x] ELSE None]
    IN  merged

\* A merge that starts from an empty dict at every chunk.
MergeRecordsAfreshMutant(m, target, results, chunk) ==
    [x \in {target[t] : t \in Range(results)} \ {None} |->
        CHOOSE t \in Range(results) : target[t] = x]

RECURSIVE MergeRecords(_, _, _, _)
MergeRecords(m, target, results, chunk) ==
    IF results = <<>> THEN m
    ELSE LET r == Head(results)
             m1 == IF target[r] # None THEN DictSet(m, target[r], r) ELSE m
         IN  MergeRecords(m1, target, Tail(results), chunk)

FtmRoutines == {"fetch_target_mappings", "build_target_map_for_chunk"}

FtmIdle ==
    /\ f_fn = "fetch_target_mappings" /\ parent_list = <<>>
    /\ f_target = <<>> /\ f_i = 0 /\ mapping = EmptyDict
    /\ f_queries = <<>> /\ f_failed = {} /\ f_pc = "idle"

FtmInit ==
    /\ f_fn \in FtmRoutines
    /\ parent_list \in SeqsUpTo(SrcIds, MaxIdList)
    /\ f_target \in [TargetRecIds -> LegacyValues]
    /\ f_i = 0
    /\ mapping = EmptyDict
    /\ f_queries = <<>>
    /\ f_failed = {}
    /\ f_pc = "loop"

\* fetch_target_mappings: one iteration of the chunk loop.  The query either
\* returns (its records in some order) or raises; the handler of the try
\* prints and continues with the next chunk.
FetchChunk ==
    /\ f_fn = "fetch_target_mappings"
    /\ f_pc = "loop"
    /\ f_i < Len(parent_list)
    /\ LET chunk == Slice(parent_list, f_i, SOQL_SIZE)
       IN  /\ f_queries' = Append(f_queries, chunk)
           /\ \/ \E results \in Orders(QueryLegacyIn(f_target, chunk)) :
                    /\ mapping' = MergeRecords(mapping, f_target, results, chunk)
                    /\ UNCHANGED f_failed
              \/ /\ f_failed' = f_failed \cup {f_i}
                 /\ UNCHANGED mapping
    /\ f_i' = f_i + SOQL_SIZE
    /\ UNCHANGED <<f_fn, parent_list, f_target, f_pc>>
    /\ UNCHANGED notFtm

\* fetch_target_mappings: the loop is over, `return mapping`.
FetchReturns ==
    /\ f_fn = "fetch_target_mappings"
    /\ f_pc = "loop"
    /\ f_i >= Len(parent_list)
    /\ f_pc' = "returned"
    /\ UNCHANGED <<f_fn, parent_list, f_target, f_i, mapping, f_queries, f_failed>>
    /\ UNCHANGED notFtm

\* build_target_map_for_chunk: one query over the whole chunk through
\* safe_query_all, which re-raises once its retries are used up; no handler.
BuildTargetMapForChunk ==
    /\ f_fn = "build_target_map_for_chunk"
    /\ f_pc = "loop"
    /\ f_queries' = Append(f_queries, parent_list)
    /\ \/ \E results \in Orders(QueryLegacyIn(f_target, parent_list)) :
             /\ mapping' = MergeRecords(EmptyDict, f_target, results, parent_list)
             /\ f_pc' = "returned"
             /\ UNCHANGED f_failed
       \/ /\ f_pc' = "raised"
          /\ f_failed' = {0}
          /\ UNCHANGED mapping
    /\ UNCHANGED <<f_fn, parent_list, f_target, f_i>>
    /\ UNCHANGED notFtm

FtmNext ==
    \/ FetchChunk
    \/ FetchReturns
    \/ BuildTargetMapForChunk


(***************************************************************************)
(* mappings.py: build_owner_mapping, fetch_createdByIds                    *)
(***************************************************************************)
OwnerKinds == 1 .. MaxOwnersPerKind
UserIds == {<<"005", n>> : n \in OwnerKinds}
GroupIds == {<<"00G", n>> : n \in OwnerKinds}
\* An id that is neither a user nor a group.
OtherIds == {<<"00D", 1>>}
OwnerIdUniverse == UserIds \cup GroupIds \cup OtherIds
DevNames == {<<"DeveloperName", n>> : n \in OwnerKinds}
NotAQueue == <<"NotAQueue">>

\* oid.startswith("005") / oid.startswith("00G")
StartsWith(oid, prefix) == oid[1] = prefix

\* integration_user_id = "005DP000009MeHkYAK"
integration_user_id == <<"005T", "integration">>

\* The Id of the target User whose Card_Legacy_Id__c is the source id.
TargetUserId(legacy) == <<"005T", legacy>>
\* The Id of the target Queue with the given DeveloperName.
TargetQueueId(name) == <<"00GT", name>>

\* SELECT Id, DeveloperName FROM Group WHERE Id IN (ids) AND Type = 'Queue'
\* on the source org: the ids of the queues among `ids`.
SourceQueues(ids) == {g \in ids \cap DOMAIN o_srcGroups : o_srcGroups[g] # NotAQueue}

\* SELECT Id, DeveloperName FROM Group WHERE DeveloperName IN (names) AND
\* Type = 'Queue' on the target org, as target_map: DeveloperName -> Id.
TargetQueueMap(names) ==
    [n \in names \cap o_tgtQueues |-> TargetQueueId(n)]

\* Step 1 of build_owner_mapping: group_mapping.
BuildGroupMapping(ids) ==
    LET source_group_ids == {oid \in ids : StartsWith(oid, "00G")}
        source_groups == SourceQueues(source_group_ids)
        dev_names == {o_srcGroups[g] : g \in source_groups} \ {None}
        target_map == TargetQueueMap(dev_names)
    IN  [g \in {x \in source_groups : /\ o_srcGroups[x] # None
                                      /\ o_srcGroups[x] \in DOMAIN target_map} |->
            target_map[o_srcGroups[g]]]

\* SELECT Id, Card_Legacy_Id__c FROM User WHERE Card_Legacy_Id__c IN (ids)
\* merged into m: m[legacy] = Id.
MergeUsers(m, ids) ==
    [x \in DOMAIN m \cup (ids \cap o_tgtUsers) |->
        IF x \in ids \cap o_tgtUsers THEN TargetUserId(x) ELSE m[x]]

\* for oid in chunk: if oid.startswith("00G") and oid in group_mapping: ...
MergeGroups(m, chunk, gm) ==
    LET hit == {oid \in Range(chunk) : StartsWith(oid, "00G") /\ oid \in DOMAIN gm}
    IN  [x \in DOMAIN m \cup hit |-> IF x \in hit THEN gm[x] ELSE m[x]]

\* for oid in chunk: if oid not in owner_mapping: owner_mapping[oid] = integration_user_id
FallbackMutant(m, chunk) == m
Fallback(m, chunk) ==
    [x \in DOMAIN m \cup Range(chunk) |->
        IF x \in DOMAIN m THEN m[x] ELSE integration_user_id]

OwnRoutines == {"build_owner_mapping", "fetch_createdByIds"}

OwnIdle ==
    /\ o_fn = "build_owner_mapping" /\ id_list = <<>> /\ o_srcGroups = <<>>
    /\ o_tgtUsers = {} /\ o_tgtQueues = {} /\ group_mapping = EmptyDict
    /\ owner_mapping = EmptyDict /\ o_i = 0 /\ o_pc = "idle"

OwnInit ==
    /\ o_fn \in OwnRoutines
    /\ id_list \in DistinctSeqsUpTo(OwnerIdUniverse, MaxOwnerList)
    /\ o_srcGroups \in [GroupIds -> DevNames \cup {None, NotAQueue}]
    /\ \A g, h \in GroupIds :      \* DeveloperName is unique among queues
          (o_srcGroups[g] = o_srcGroups[h] /\ o_srcGroups[g] \in DevNames) => g = h
    /\ o_tgtUsers \in SUBSET OwnerIdUniverse
    /\ o_tgtQueues \in SUBSET DevNames
    /\ group_mapping = EmptyDict
    /\ owner_mapping = EmptyDict
    /\ o_i = 0
    /\ o_pc = "start"

\* build_owner_mapping up to the chunk loop: the early return on an empty
\* ownerIds, else the two Group queries (either may raise: no handler).
OwnerGroupStep ==
    /\ o_fn = "build_owner_mapping"
    /\ o_pc = "start"
    /\ IF id_list = <<>>
       THEN /\ o_pc' = "returned"
            /\ UNCHANGED group_mapping
       ELSE \/ /\ group_mapping' = BuildGroupMapping(Range(id_list))
               /\ o_pc' = "loop"
            \/ /\ \E oid \in Range(id_list) : StartsWith(oid, "00G")
               /\ o_pc' = "raised"
               /\ UNCHANGED group_mapping
    /\ UNCHANGED <<o_fn, id_list, o_srcGroups, o_tgtUsers, o_tgtQueues,
                   owner_mapping, o_i>>
    /\ UNCHANGED notOwn

\* build_owner_mapping: one iteration of the chunk loop (users, groups,
\* fallback); the User query may raise.
OwnerChunk ==
    /\ o_fn = "build_owner_mapping"
    /\ o_pc = "loop"
    /\ o_i < Len(id_list)
    /\ LET chunk == Slice(id_list, o_i, OwnerBatchSize)
           user_ids == {oid \in Range(chunk) : StartsWith(oid, "005")}
       IN  \/ /\ owner_mapping' =
                    Fallback(MergeGroups(MergeUsers(owner_mapping, user_ids),
                                         chunk, group_mapping), chunk)
              /\ o_i' = o_i + OwnerBatchSize
              /\ UNCHANGED o_pc
           \/ /\ user_ids # {}
              /\ o_pc' = "raised"
              /\ UNCHANGED <<owner_mapping, o_i>>
    /\ UNCHANGED <<o_fn, id_list, o_srcGroups, o_tgtUsers, o_tgtQueues, group_mapping>>
    /\ UNCHANGED notOwn

\* fetch_createdByIds: one iteration of the chunk loop (every id is looked
\* up as a User legacy id, then the fallback); the query may raise.
CreatedByChunk ==
    /\ o_fn = "fetch_createdByIds"
    /\ o_pc \in {"start", "loop"}
    /\ o_i < Len(id_list)
    /\ LET chunk == Slice(id_list, o_i, OwnerBatchSize)
       IN  \/ /\ owner_mapping' = Fallback(MergeUsers(owner_mapping, Range(chunk)), chunk)
              /\ o_i' = o_i + OwnerBatchSize
              /\ o_pc' = "loop"
           \/ /\ o_pc' = "raised"
              /\ UNCHANGED <<owner_mapping, o_i>>
    /\ UNCHANGED <<o_fn, id_list, o_srcGroups, o_tgtUsers, o_tgtQueues, group_mapping>>
    /\ UNCHANGED notOwn

\* Either routine: the chunk loop is over, `return owner_mapping`.
OwnerReturns ==
    /\ \/ o_fn = "build_owner_mapping" /\ o_pc = "loop"
       \/ o_fn = "fetch_createdByIds" /\ o_pc \in {"start", "loop"}
    /\ o_i >= Len(id_list)
    /\ o_pc' = "returned"
    /\ UNCHANGED <<o_fn, id_list, o_srcGroups, o_tgtUsers, o_tgtQueues,
                   group_mapping, owner_mapping, o_i>>
    /\ UNCHANGED notOwn

OwnNext ==
    \/ OwnerGroupStep
    \/ OwnerChunk
    \/ CreatedByChunk
    \/ OwnerReturns

(***************************************************************************)
(* activity_export1.py: export_activity                                    *)
(***************************************************************************)
\* A record id carries its object type (its key prefix) as first component.
TypeOf(id) == id[1]

\* Parents an activity can point to: WhatId at an Account or a WorkOrder,
\* WhoId at a Contact or a Lead.
WhatObjects == {<<"Account", 1>>, <<"WorkOrder", 1>>}
WhoObjects == {<<"Contact", 1>>, <<"Lead", 1>>}

\* The records the source query can return: the condition of ACTIVITY_CONFIG
\* keeps those with a WhatId of an allowed type or with a WhoId.
ActivityShapes ==
    {[WhatId |-> w, WhoId |-> h] :
        w \in WhatObjects \cup {None}, h \in WhoObjects \cup {None}}
      \ {[WhatId |-> None, WhoId |-> None]}

\* fetch_activity_records: keep a record when it has a WhatId, or when its
\* WhoId is one of con_ids.
FetchActivityRecords(records, cons) ==
    {rec \in records : rec.WhatId # None \/ rec.WhoId \in cons}

\* what_ids_by_type: obj_type -> set of WhatIds, keyed by rec["What"]["Type"].
WhatIdsByType(acts) ==
    [t \in {TypeOf(rec.WhatId) : rec \in {a \in acts : a.WhatId # None}} |->
        {rec.WhatId : rec \in {a \in acts : a.WhatId # None /\ TypeOf(a.WhatId) = t}}]

WhoIds(acts) == {rec.WhoId : rec \in {a \in acts : a.WhoId # None}}

\* fetch_target_mappings(sf_target, object_name, ids, batch_size) when its
\* query succeeds: the ids with a record in the target's object_name table.
TargetMappings(object_name, ids) ==
    [id \in {x \in ids : <<object_name, x>> \in e_target} |-> <<"T", object_name, id>>]

\* parent_mappings.update(mapping)
DictUpdate(d, m) == [x \in DOMAIN d \cup DOMAIN m |-> IF x \in DOMAIN m THEN m[x] ELSE d[x]]

\* The object the WhoIds are resolved against (line 136).
WhoObjectName(ids) == "Contact"

\* The object a group of what_ids_by_type is resolved against (line 131).
WhatObjectName(obj_type) == obj_type

\* tgt_what / tgt_who: parent_mappings.get(src) if src else ""
TargetOf(pm, src) == IF src = None THEN None ELSE DictGet(pm, src)

\* is_unmatched
IsUnmatched(rec, pm) ==
    LET tgt_what == TargetOf(pm, rec.WhatId)
        tgt_who == TargetOf(pm, rec.WhoId)
    IN  \/ rec.WhatId # None /\ tgt_what = None
        \/ rec.WhoId # None /\ tgt_who = None
        \/ tgt_what = None /\ tgt_who = None

ExpIdle ==
    /\ e_source = {} /\ con_ids = {} /\ e_eligible = {} /\ e_target = {}
    /\ valid_activities = {} /\ what_ids_by_type = EmptyDict /\ who_ids = {}
    /\ parent_mappings = EmptyDict /\ e_todo = {} /\ e_lookups = {}
    /\ e_rows = {} /\ e_pc = "idle"

ExpInit ==
    /\ e_source \in {a \in SUBSET ActivityShapes : Cardinality(a) <= MaxActivities}
    /\ con_ids \in SUBSET {c \in WhoObjects : TypeOf(c) = "Contact"}
    /\ e_eligible \in SUBSET WhatObjects
    /\ e_target \in SUBSET ({<<TypeOf(x), x>> : x \in WhatObjects \cup WhoObjects}
                              \cup {<<"Contact", x>> : x \in WhoObjects})
    /\ valid_activities = {}
    /\ what_ids_by_type = EmptyDict
    /\ who_ids = {}
    /\ parent_mappings = EmptyDict
    /\ e_todo = {}
    /\ e_lookups = {}
    /\ e_rows = {}
    /\ e_pc = "fetch"

\* Lines 103-124: fetch the activities (either source query may raise:
\* safe_query re-raises, no handler) and collect the parent ids.
ExportFetch ==
    /\ e_pc = "fetch"
    /\ \/ LET acts == FetchActivityRecords(e_source, con_ids)
          IN  /\ valid_activities' = acts
              /\ what_ids_by_type' = WhatIdsByType(acts)
              /\ who_ids' = WhoIds(acts)
              /\ e_todo' = DOMAIN WhatIdsByType(acts)
              /\ e_pc' = "what"
       \/ /\ e_pc' = "raised"
          /\ UNCHANGED <<valid_activities, what_ids_by_type, who_ids, e_todo>>
    /\ UNCHANGED <<e_source, con_ids, e_eligible, e_target, parent_mappings,
                   e_lookups, e_rows>>
    /\ UNCHANGED notExp

\* Lines 128-132: one iteration over what_ids_by_type.  The filter query
\* keeps the eligible ids (none when it fails: the batch is skipped); a
\* non-empty result is resolved in the target, where a failed query leaves
\* the mapping empty.
ExportResolveWhat ==
    /\ e_pc = "what"
    /\ \E obj_type \in e_todo :
          /\ e_todo' = e_todo \ {obj_type}
          /\ \E filtered_ids \in {what_ids_by_type[obj_type] \cap e_eligible, {}} :
                IF filtered_ids = {}
                THEN UNCHANGED <<parent_mappings, e_lookups>>
                ELSE /\ e_lookups' = e_lookups \cup
                            {<<WhatObjectName(obj_type), id>> : id \in filtered_ids}
                     /\ \E m \in {TargetMappings(WhatObjectName(obj_type), filtered_ids),
                                  EmptyDict} :
                            parent_mappings' = DictUpdate(parent_mappings, m)
    /\ UNCHANGED <<e_source, con_ids, e_eligible, e_target, valid_activities,
                   what_ids_by_type, who_ids, e_rows, e_pc>>
    /\ UNCHANGED notExp

\* Lines 135-137: the WhoIds, resolved in one call.
ExportResolveWho ==
    /\ e_pc = "what"
    /\ e_todo = {}
    /\ IF who_ids = {}
       THEN UNCHANGED <<parent_mappings, e_lookups>>
       ELSE /\ e_lookups' = e_lookups \cup {<<WhoObjectName(who_ids), id>> : id \in who_ids}
            /\ \E m \in {TargetMappings(WhoObjectName(who_ids), who_ids), EmptyDict} :
                   parent_mappings' = DictUpdate(parent_mappings, m)
    /\ e_pc' = "write"
    /\ UNCHANGED <<e_source, con_ids, e_eligible, e_target, valid_activities,
                   what_ids_by_type, who_ids, e_todo, e_rows>>
    /\ UNCHANGED notExp

\* Lines 147-171: every activity goes to the export or the unmatched file.
ExportWrite ==
    /\ e_pc = "write"
    /\ e_rows' = {<<IF IsUnmatched(rec, parent_mappings) THEN "unmatched" ELSE "export",
                    rec, TargetOf(parent_mappings, rec.WhatId),
                    TargetOf(parent_mappings, rec.WhoId)>> : rec \in valid_activities}
    /\ e_pc' = "done"
    /\ UNCHANGED <<e_source, con_ids, e_eligible, e_target, valid_activities,
                   what_ids_by_type, who_ids, parent_mappings, e_todo, e_lookups>>
    /\ UNCHANGED notExp

ExpNext ==
    \/ ExportFetch
    \/ ExportResolveWhat
    \/ ExportResolveWho
    \/ ExportWrite

(***************************************************************************)
(* activity_import2.py: import_activities, bulk_insert_with_retry          *)
(***************************************************************************)
ActivityId(n) == <<"act", n>>

\* A row of the mapping CSV: Source_Activity_Id, and whether Target_WhatId or
\* Target_WhoId is filled in.
MappingRows(n) ==
    {[Source_Activity_Id |-> ActivityId(n), has_target |-> b] : b \in BOOLEAN}

\* The mapping CSVs export_activity can have written: one row per activity.
MappingFiles ==
    UNION {{m \in [1 .. k -> UNION {MappingRows(n) : n \in 1 .. MaxRows}] :
               \A i \in 1 .. k : m[i].Source_Activity_Id = ActivityId(i)} : k \in 0 .. MaxRows}

\* Lines 178-210: the entry for the skipped row, or None when the row yields
\* a record (build_record always returns a non-empty dict).
SkipReason(m, found) ==
    IF m.Source_Activity_Id \notin found THEN <<"Source record not found">>
    ELSE IF ~m.has_target THEN <<"Skipped: No Target_WhatId or Target_WhoId">>
    ELSE None

LogRow(source_id, target_id, success) ==
    [Source_Activity_Id |-> source_id, Target_Activity_Id |-> target_id, Success |-> success]

\* The log rows appended in the preparation loop, and the records built.
SkippedLogs(rows, found) ==
    LET skipped == {i \in DOMAIN rows : SkipReason(rows[i], found) # None}
        kept == SelectAt(rows, skipped)
    IN  [i \in DOMAIN kept |-> LogRow(kept[i].Source_Activity_Id, None, FALSE)]

BuiltRecords(rows, found) ==
    LET built == {i \in DOMAIN rows : SkipReason(rows[i], found) = None}
        kept == SelectAt(rows, built)
    IN  [i \in DOMAIN kept |-> kept[i].Source_Activity_Id]

\* Lines 230-236: for m, res in zip(mappings, results): logs.append(...)
ResultLogs(rows, results) ==
    [i \in 1 .. ZipLen(rows, results) |->
        LogRow(rows[i].Source_Activity_Id,
               IF results[i].success THEN results[i].id ELSE None,
               results[i].success)]

\* The result the bulk API reports for one record: created under a new id,
\* or rejected with a list of error dicts.
Created(id) == [success |-> TRUE, id |-> id, errors |-> "none"]
Rejected == [success |-> FALSE, id |-> None, errors |-> "dicts"]
\* Line 128: the result made up for a record when the bulk call raised;
\* its errors are [str(e)], a list of strings.
RaisedResult == [success |-> FALSE, id |-> None, errors |-> "strings"]

\* Line 235: e["message"] for e in res["errors"] raises TypeError when an
\* error is a string.
LoggingRaises(rows, results) ==
    \E i \in 1 .. ZipLen(rows, results) :
        ~results[i].success /\ results[i].errors = "strings"

\* A new target id: the next unused one.
NewTargetId(created, k) == <<"tgt", Cardinality(created) + k>>

\* Lines 134-138: the records whose result is not a success (ok holds the
\* positions of the successes).
FailedRecordsMutant(queue, ok) == queue
FailedRecords(queue, ok) == SelectAt(queue, DOMAIN queue \ ok)

\* while attempt <= max_retries and to_retry
RetryLoopRuns(a, queue) == a <= ImportMaxRetries /\ queue # <<>>

ImpIdle ==
    /\ mappings = <<>> /\ i_found = {} /\ records_to_insert = <<>> /\ logs = <<>>
    /\ to_retry = <<>> /\ all_results = <<>> /\ i_attempt = 0 /\ i_rounds = <<>>
    /\ i_created = {} /\ log_csv = None /\ i_pc = "idle"

ImpInit ==
    /\ mappings \in MappingFiles
    /\ i_found \in SUBSET {ActivityId(n) : n \in 1 .. MaxRows}
    /\ records_to_insert = <<>>
    /\ logs = <<>>
    /\ to_retry = <<>>
    /\ all_results = <<>>
    /\ i_attempt = 0
    /\ i_rounds = <<>>
    /\ i_created = {}
    /\ log_csv = None
    /\ i_pc = "prepare"

\* Lines 157-226 up to the call of bulk_insert_with_retry: read the CSV,
\* fetch the source records (fetch_records and build_owner_mapping may
\* raise: no handler), build the records and log the skipped rows.
ImportPrepare ==
    /\ i_pc = "prepare"
    /\ IF mappings = <<>>
       THEN /\ i_pc' = "done"           \* `return`: nothing is written
            /\ UNCHANGED <<records_to_insert, logs, to_retry, i_attempt>>
       ELSE \/ /\ records_to_insert' = BuiltRecords(mappings, i_found)
               /\ logs' = SkippedLogs(mappings, i_found)
               /\ to_retry' = BuiltRecords(mappings, i_found)
               /\ i_attempt' = 1
               /\ i_pc' = (IF BuiltRecords(mappings, i_found) # <<>> THEN "insert" ELSE "log")
            \/ /\ i_pc' = "raised"
               /\ UNCHANGED <<records_to_insert, logs, to_retry, i_attempt>>
    /\ UNCHANGED <<mappings, i_found, all_results, i_rounds, i_created, log_csv>>
    /\ UNCHANGED notImp

\* bulk_insert_with_retry: one iteration of the while loop.  The records of
\* to_retry are sent in sub-batches; each record is created or rejected.
\* When the call for sub-batch number `raising` raises, the sub-batches
\* before it have been inserted, every record of to_retry gets a failed
\* result and the function returns.
ImportInsertRound ==
    /\ i_pc = "insert"
    /\ RetryLoopRuns(i_attempt, to_retry)
    /\ i_rounds' = Append(i_rounds, to_retry)
    /\ \E accepted \in SUBSET (DOMAIN to_retry) :
       \E raising \in 0 .. ((Len(to_retry) + ImportBatchSize - 1) \div ImportBatchSize) :
          LET sent == IF raising = 0 THEN DOMAIN to_retry
                      ELSE 1 .. ((raising - 1) * ImportBatchSize)
              ok == accepted \cap sent
              rank(i) == Cardinality({j \in ok : j <= i})
              results == [i \in DOMAIN to_retry |->
                            IF i \in ok THEN Created(NewTargetId(i_created, rank(i)))
                            ELSE Rejected]
              failed_records == FailedRecords(to_retry, ok)
          IN  /\ accepted \subseteq sent
              /\ i_created' = i_created \cup
                     {<<NewTargetId(i_created, rank(i)), to_retry[i]>> : i \in ok}
              /\ IF raising # 0
                 THEN /\ all_results' = all_results \o [i \in DOMAIN to_retry |-> RaisedResult]
                      /\ i_pc' = "log"
                      /\ UNCHANGED <<to_retry, i_attempt>>
                 ELSE /\ all_results' = all_results \o results
                      /\ IF failed_records # <<>>
                         THEN /\ to_retry' = failed_records
                              /\ i_attempt' = i_attempt + 1
                              /\ i_pc' = (IF RetryLoopRuns(i_attempt + 1, failed_records)
                                          THEN "insert" ELSE "log")
                         ELSE /\ i_pc' = "log"
                              /\ UNCHANGED <<to_retry, i_attempt>>
    /\ UNCHANGED <<mappings, i_found, records_to_insert, logs, log_csv>>
    /\ UNCHANGED notImp

\* Lines 229-241: pair the mapping rows with the results and write the log
\* file; nothing is written when building a log row raises.
ImportLog ==
    /\ i_pc = "log"
    /\ IF LoggingRaises(mappings, all_results)
       THEN /\ i_pc' = "raised"
            /\ UNCHANGED <<logs, log_csv>>
       ELSE /\ logs' = logs \o ResultLogs(mappings, all_results)
            /\ log_csv' = logs \o ResultLogs(mappings, all_results)
            /\ i_pc' = "done"
    /\ UNCHANGED <<mappings, i_found, records_to_insert, to_retry, all_results,
                   i_attempt, i_rounds, i_created>>
    /\ UNCHANGED notImp

ImpNext ==
    \/ ImportPrepare
    \/ ImportInsertRound
    \/ ImportLog

(***************************************************************************)
(* reletedDataHelper.py: migrate_attachments, migrate_feed,                *)
(* _bulk_insert_with_fallback                                              *)
(***************************************************************************)
\* Source activities (Tasks); the Task numbered 0 is one no caller lists.
RelActivities == {<<"00T", n>> : n \in 1 .. MaxRelActivities}
AttachmentIds == {<<"00P", 1>>, <<"00P", 2>>}
FeedItemIds == {<<"0D5", 1>>, <<"0D5", 2>>}
CommentIds == {<<"0D7", 1>>, <<"0D7", 2>>}

\* The target activity a source activity was migrated to.
TargetActivityId(a) == <<"00Tt", a[2]>>

\* The records of a query result, in the order of their ids.
ById(S) == CHOOSE s \in Orders(S) : \A i, j \in DOMAIN s : i < j => s[i][2] < s[j][2]

\* _soql_in_chunks: the ids of the first IN clause.  A call is given at most
\* CHUNK_SIZE_ACTIVITIES ids, far fewer than SOQL_IN_LIMIT, so that the loop
\* over the clauses runs once.
IdsClause(ids) == Slice(ids, 0, SOQL_IN_LIMIT)

\* SELECT ... FROM <table> WHERE <parent field> IN ids_clause
QueryByParent(table, ids_clause) ==
    ById({r \in DOMAIN table : table[r] \in Range(ids_clause)})

MissingMutant(tgt_parent) == FALSE

\* `if not tgt_parent`
Missing(tgt_parent) == tgt_parent = None

\* A create request as the target org receives it: the object, the API, the
\* parent reference of the payload, the source record the payload was built
\* from and that record's parent in the source, whether the target created
\* the record (under the id numbered by the request's position) and whether
\* the caller got that id back as a success.
Request(object, api, parent, src, src_parent, accepted, returned, pos) ==
    [object |-> object, api |-> api, parent |-> parent, src |-> src,
     src_parent |-> src_parent, accepted |-> accepted, returned |-> returned,
     id |-> IF accepted THEN <<"tgt", pos>> ELSE None]

\* An entry of results_out.
Outcome(type, src_parent, tgt_parent, src_rec, tgt_rec, status, error) ==
    [Type |-> type, SourceActivityId |-> src_parent, TargetActivityId |-> tgt_parent,
     SourceRecordId |-> src_rec, TargetRecordId |-> tgt_rec,
     Status |-> status, Error |-> error]

\* A remote call may fail only while the run's failures are below MaxFaults.
CanFail == faults < MaxFaults

\* ---- _bulk_insert_with_fallback (lines 51-84) ----
\* What the target does with a batch of n records: the bulk call returns
\* (raises = FALSE) having created the records `accepted`, or it raises
\* having created `accepted`, and the REST fallback then creates the
\* records `created` one by one and fails on the others.
BulkInsertCalls(n) ==
    {[raises |-> r, accepted |-> a, created |-> c] :
        r \in BOOLEAN, a \in SUBSET (1 .. n), c \in SUBSET (1 .. n)}

\* The remote failures a call amounts to.
CallCost(call, n) ==
    IF call.raises THEN 1 + (n - Cardinality(call.created))
    ELSE n - Cardinality(call.accepted)

\* The requests the target receives: the bulk batch, then on fallback one
\* REST create per record.
CallRequests(object, parents, srcs, src_parents, call, base) ==
    LET n == Len(srcs)
        bulk == [i \in 1 .. n |->
                    Request(object, "bulk", parents[i], srcs[i], src_parents[i],
                            i \in call.accepted, i \in call.accepted /\ ~call.raises,
                            base + i)]
        rest == [i \in 1 .. n |->
                    Request(object, "rest", parents[i], srcs[i], src_parents[i],
                            i \in call.created, i \in call.created, base + n + i)]
    IN  IF call.raises THEN bulk \o rest ELSE bulk

\* The list _bulk_insert_with_fallback returns: one result per record.
CallResults(call, n, base) ==
    [i \in 1 .. n |->
        IF call.raises
        THEN [success |-> i \in call.created,
              id |-> IF i \in call.created THEN <<"tgt", base + n + i>> ELSE None]
        ELSE [success |-> i \in call.accepted,
              id |-> IF i \in call.accepted THEN <<"tgt", base + i>> ELSE None]]

\* ---- migrate_attachments (lines 91-189) ----
\* Lines 130-187: the outcome of one attachment.
AttachmentOutcome(att, src_parent, tgt_parent, tgt_rec, error) ==
    Outcome("Attachment", src_parent, tgt_parent, att, tgt_rec,
            IF tgt_rec # None THEN "Success" ELSE "Failed", error)

\* Lines 96-127: nothing to do without ids; else query the attachments of
\* the activities and build the owner mapping.  safe_query and
\* build_owner_mapping have no handler here: their exception ends the call.
AttachmentsFetch ==
    /\ rel_pc = "attachments"
    /\ IF src_activity_ids = <<>>
       THEN /\ rel_pc' = "done"
            /\ UNCHANGED <<fetched, valid_attachments, faults>>
       ELSE LET attachments == QueryByParent(s_attachments, IdsClause(src_activity_ids))
            IN  \/ /\ valid_attachments' = attachments
                   /\ fetched' = Range(attachments)
                   /\ rel_pc' = (IF attachments = <<>> THEN "done" ELSE "attachment")
                   /\ UNCHANGED faults
                \/ /\ CanFail                   \* safe_query raises
                   /\ faults' = faults + 1
                   /\ rel_pc' = "raised"
                   /\ UNCHANGED <<fetched, valid_attachments>>
                \/ /\ CanFail                   \* build_owner_mapping raises
                   /\ attachments # <<>>
                   /\ faults' = faults + 1
                   /\ fetched' = Range(attachments)
                   /\ rel_pc' = "raised"
                   /\ UNCHANGED valid_attachments
    /\ UNCHANGED <<rel_fn, src_activity_ids, activity_map, results_out, s_attachments,
                   s_feeditems, s_comments, feeditems_by_parent, source_to_target_fi,
                   to_insert_comments, t_requests>>
    /\ UNCHANGED <<src_ids_all, start, s_links, s_versions, t_users, doc_cache, file_map,
                   links_by_document, document_links, global_user_mappings, cur_doc,
                   t_links, output_csv>>
    /\ UNCHANGED notRel

\* Lines 130-187: one iteration of `for att in valid_attachments`.
AttachmentStep ==
    /\ rel_pc = "attachment"
    /\ LET att == Head(valid_attachments)
           src_parent == s_attachments[att]
           tgt_parent == DictGet(activity_map, src_parent)
           pos == Len(t_requests) + 1
       IN  IF Missing(tgt_parent)
           THEN /\ results_out' = Append(results_out,
                        AttachmentOutcome(att, src_parent, None, None,
                                          "No target parent mapping"))
                /\ UNCHANGED <<t_requests, faults>>
           ELSE \/ /\ t_requests' = Append(t_requests,
                          Request("Attachment", "rest", tgt_parent, att, src_parent,
                                  TRUE, TRUE, pos))
                   /\ results_out' = Append(results_out,
                          AttachmentOutcome(att, src_parent, tgt_parent, <<"tgt", pos>>, ""))
                   /\ UNCHANGED faults
                \/ /\ CanFail                   \* the download raises
                   /\ faults' = faults + 1
                   /\ results_out' = Append(results_out,
                          AttachmentOutcome(att, src_parent, tgt_parent, None,
                                            "Attachment migration failed"))
                   /\ UNCHANGED t_requests
                \/ /\ CanFail                   \* Attachment.create raises
                   /\ faults' = faults + 1
                   /\ t_requests' = Append(t_requests,
                          Request("Attachment", "rest", tgt_parent, att, src_parent,
                                  FALSE, FALSE, pos))
                   /\ results_out' = Append(results_out,
                          AttachmentOutcome(att, src_parent, tgt_parent, None,
                                            "Attachment migration failed"))
    /\ valid_attachments' = Tail(valid_attachments)
    /\ rel_pc' = (IF Tail(valid_attachments) = <<>> THEN "done" ELSE "attachment")
    /\ UNCHANGED <<rel_fn, src_activity_ids, activity_map, s_attachments, s_feeditems,
                   s_comments, fetched, feeditems_by_parent, source_to_target_fi,
                   to_insert_comments>>
    /\ UNCHANGED <<src_ids_all, start, s_links, s_versions, t_users, doc_cache, file_map,
                   links_by_document, document_links, global_user_mappings, cur_doc,
                   t_links, output_csv>>
    /\ UNCHANGED notRel

\* ---- migrate_feed (lines 532-728) ----
\* Lines 557-560: feeditems_by_parent as the list of its items, a dict in
\* insertion order.
RECURSIVE GroupByParent(_, _)
GroupByParent(recs, table) ==
    IF recs = <<>> THEN <<>>
    ELSE LET p == table[Head(recs)]
         IN  <<<<p, SelectSeq(recs, LAMBDA r : table[r] = p)>>>>
                 \o GroupByParent(SelectSeq(recs, LAMBDA r : table[r] # p), table)

BatchOutcomesMutant(type, batch, insert_results, src_parent, tgt_parent) ==
    LET ok == {i \in 1 .. ZipLen(batch, insert_results) : insert_results[i].success}
        kept == SelectAt(batch, ok)
    IN  [i \in DOMAIN kept |->
            Outcome(type, src_parent, tgt_parent, kept[i], None, "Success", "")]

\* Lines 619-643 and 705-728: the outcomes of a batch, one per pair of
\* zip(batch, insert_results).
BatchOutcomes(type, batch, insert_results, src_parent, tgt_parent) ==
    [i \in 1 .. ZipLen(batch, insert_results) |->
        IF insert_results[i].success
        THEN Outcome(type, src_parent, tgt_parent, batch[i], insert_results[i].id,
                     "Success", "")
        ELSE Outcome(type, src_parent, tgt_parent, batch[i], None, "Failed", "errors")]

\* Lines 619-621: source_to_target_fi[fi_src["Id"]] = resp["id"] for the
\* successful pairs.
RecordFeedItems(d, batch_fis, insert_results) ==
    LET ok == {i \in 1 .. ZipLen(batch_fis, insert_results) : insert_results[i].success}
    IN  [x \in DOMAIN d \cup {batch_fis[i] : i \in ok} |->
            IF \E i \in ok : batch_fis[i] = x
            THEN insert_results[CHOOSE i \in ok : batch_fis[i] = x].id
            ELSE d[x]]

TargetFeedItemMutant(d, feed_item_id) ==
    d[CHOOSE k \in DOMAIN d : \A j \in DOMAIN d : k[2] >= j[2]]

\* Line 666: tgt_fi = source_to_target_fi.get(c["FeedItemId"])
TargetFeedItem(d, feed_item_id) == DictGet(d, feed_item_id)

\* Where migrate_feed goes once the FeedItems of every parent are handled
\* (line 646: no comments without a migrated FeedItem).
AfterFeedItems(groups, d) ==
    IF groups # <<>> THEN "feed_items"
    ELSE IF d = EmptyDict THEN "done" ELSE "feed_comments"

\* Lines 540-560: query the FeedItems of the activities, remap their
\* CreatedById (related_recordid_mapping; its queries have no handler) and
\* group them by parent.
FeedFetch ==
    /\ rel_pc = "feed"
    /\ IF src_activity_ids = <<>>
       THEN /\ rel_pc' = "done"
            /\ UNCHANGED <<fetched, feeditems_by_parent, faults>>
       ELSE LET feeditems == QueryByParent(s_feeditems, IdsClause(src_activity_ids))
            IN  \/ /\ feeditems_by_parent' = GroupByParent(feeditems, s_feeditems)
                   /\ fetched' = Range(feeditems)
                   /\ rel_pc' = (IF feeditems = <<>> THEN "done" ELSE "feed_items")
                   /\ UNCHANGED faults
                \/ /\ CanFail                   \* safe_query raises
                   /\ faults' = faults + 1
                   /\ rel_pc' = "raised"
                   /\ UNCHANGED <<fetched, feeditems_by_parent>>
                \/ /\ CanFail                   \* related_recordid_mapping raises
                   /\ feeditems # <<>>
                   /\ faults' = faults + 1
                   /\ fetched' = Range(feeditems)
                   /\ rel_pc' = "raised"
                   /\ UNCHANGED feeditems_by_parent
    /\ UNCHANGED <<rel_fn, src_activity_ids, activity_map, results_out, s_attachments,
                   s_feeditems, s_comments, valid_attachments, source_to_target_fi,
                   to_insert_comments, t_requests>>
    /\ UNCHANGED <<src_ids_all, start, s_links, s_versions, t_users, doc_cache, file_map,
                   links_by_document, document_links, global_user_mappings, cur_doc,
                   t_links, output_csv>>
    /\ UNCHANGED notRel

\* Lines 565-578: a parent without target mapping; all its FeedItems fail.
FeedParentUnmapped ==
    /\ rel_pc = "feed_items"
    /\ LET src_parent == Head(feeditems_by_parent)[1]
           fi_list == Head(feeditems_by_parent)[2]
       IN  /\ Missing(DictGet(activity_map, src_parent))
           /\ results_out' = results_out \o
                  [i \in DOMAIN fi_list |->
                      Outcome("FeedItem", src_parent, None, fi_list[i], None,
                              "Failed", "No target parent mapping")]
    /\ feeditems_by_parent' = Tail(feeditems_by_parent)
    /\ rel_pc' = AfterFeedItems(Tail(feeditems_by_parent), source_to_target_fi)
    /\ UNCHANGED <<rel_fn, src_activity_ids, activity_map, s_attachments, s_feeditems,
                   s_comments, fetched, valid_attachments, source_to_target_fi,
                   to_insert_comments, t_requests, faults>>
    /\ UNCHANGED <<src_ids_all, start, s_links, s_versions, t_users, doc_cache, file_map,
                   links_by_document, document_links, global_user_mappings, cur_doc,
                   t_links, output_csv>>
    /\ UNCHANGED notRel

\* Lines 609-643: one batch of the FeedItems of a mapped parent.
FeedItemBatch ==
    /\ rel_pc = "feed_items"
    /\ LET src_parent == Head(feeditems_by_parent)[1]
           fi_list == Head(feeditems_by_parent)[2]
           tgt_parent == DictGet(activity_map, src_parent)
           batch_fis == Slice(fi_list, 0, CHUNK_SIZE_API)
           rest == Slice(fi_list, CHUNK_SIZE_API, Len(fi_list))
           groups == IF rest = <<>> THEN Tail(feeditems_by_parent)
                     ELSE <<<<src_parent, rest>>>> \o Tail(feeditems_by_parent)
           n == Len(batch_fis)
       IN  /\ ~Missing(tgt_parent)
           /\ \E call \in BulkInsertCalls(n) :
                 LET insert_results == CallResults(call, n, Len(t_requests))
                 IN  /\ call.raises \/ call.created = {}
                     /\ faults + CallCost(call, n) <= MaxFaults
                     /\ faults' = faults + CallCost(call, n)
                     /\ t_requests' = t_requests \o
                            CallRequests("FeedItem", [i \in 1 .. n |-> tgt_parent], batch_fis,
                                         [i \in 1 .. n |-> src_parent], call, Len(t_requests))
                     /\ results_out' = results_out \o
                            BatchOutcomes("FeedItem", batch_fis, insert_results,
                                          src_parent, tgt_parent)
                     /\ source_to_target_fi' =
                            RecordFeedItems(source_to_target_fi, batch_fis, insert_results)
           /\ feeditems_by_parent' = groups
           /\ rel_pc' = AfterFeedItems(groups, source_to_target_fi')
    /\ UNCHANGED <<rel_fn, src_activity_ids, activity_map, s_attachments, s_feeditems,
                   s_comments, fetched, valid_attachments, to_insert_comments>>
    /\ UNCHANGED <<src_ids_all, start, s_links, s_versions, t_users, doc_cache, file_map,
                   links_by_document, document_links, global_user_mappings, cur_doc,
                   t_links, output_csv>>
    /\ UNCHANGED notRel

\* Lines 649-699: query the comments of the migrated FeedItems, remap their
\* CreatedById and build the payloads; a comment without migrated FeedItem
\* gets a Failed outcome.
FeedFetchComments ==
    /\ rel_pc = "feed_comments"
    /\ LET src_feed_ids == ById(DOMAIN source_to_target_fi)
           comments == QueryByParent(s_comments, IdsClause(src_feed_ids))
           orphan == {i \in DOMAIN comments :
                         Missing(TargetFeedItem(source_to_target_fi, s_comments[comments[i]]))}
           skipped == SelectAt(comments, orphan)
           kept == SelectAt(comments, DOMAIN comments \ orphan)
       IN  \/ /\ fetched' = fetched \cup Range(comments)
              /\ results_out' = results_out \o
                     [i \in DOMAIN skipped |->
                         Outcome("FeedComment", None, None, skipped[i], None,
                                 "Failed", "Parent FeedItem not migrated")]
              /\ to_insert_comments' =
                     [i \in DOMAIN kept |->
                         <<kept[i], TargetFeedItem(source_to_target_fi, s_comments[kept[i]])>>]
              /\ rel_pc' = (IF kept = <<>> THEN "done" ELSE "feed_comment_batch")
              /\ UNCHANGED faults
           \/ /\ CanFail                        \* safe_query raises
              /\ faults' = faults + 1
              /\ rel_pc' = "raised"
              /\ UNCHANGED <<fetched, results_out, to_insert_comments>>
           \/ /\ CanFail                        \* related_recordid_mapping raises
              /\ comments # <<>>
              /\ faults' = faults + 1
              /\ fetched' = fetched \cup Range(comments)
              /\ rel_pc' = "raised"
              /\ UNCHANGED <<results_out, to_insert_comments>>
    /\ UNCHANGED <<rel_fn, src_activity_ids, activity_map, s_attachments, s_feeditems,
                   s_comments, valid_attachments, feeditems_by_parent,
                   source_to_target_fi, t_requests>>
    /\ UNCHANGED <<src_ids_all, start, s_links, s_versions, t_users, doc_cache, file_map,
                   links_by_document, document_links, global_user_mappings, cur_doc,
                   t_links, output_csv>>
    /\ UNCHANGED notRel

\* Lines 702-728: one batch of comments.
FeedCommentBatch ==
    /\ rel_pc = "feed_comment_batch"
    /\ LET batch == Slice(to_insert_comments, 0, CHUNK_SIZE_API)
           rest == Slice(to_insert_comments, CHUNK_SIZE_API, Len(to_insert_comments))
           n == Len(batch)
           src_batch == [i \in 1 .. n |-> batch[i][1]]
       IN  /\ \E call \in BulkInsertCalls(n) :
                 LET insert_results == CallResults(call, n, Len(t_requests))
                 IN  /\ call.raises \/ call.created = {}
                     /\ faults + CallCost(call, n) <= MaxFaults
                     /\ faults' = faults + CallCost(call, n)
                     /\ t_requests' = t_requests \o
                            CallRequests("FeedComment", [i \in 1 .. n |-> batch[i][2]],
                                         src_batch,
                                         [i \in 1 .. n |-> s_comments[src_batch[i]]],
                                         call, Len(t_requests))
                     /\ results_out' = results_out \o
                            BatchOutcomes("FeedComment", src_batch, insert_results, None, None)
           /\ to_insert_comments' = rest
           /\ rel_pc' = (IF rest = <<>> THEN "done" ELSE "feed_comment_batch")
    /\ UNCHANGED <<rel_fn, src_activity_ids, activity_map, s_attachments, s_feeditems,
                   s_comments, fetched, valid_attachments, feeditems_by_parent,
                   source_to_target_fi>>
    /\ UNCHANGED <<src_ids_all, start, s_links, s_versions, t_users, doc_cache, file_map,
                   links_by_document, document_links, global_user_mappings, cur_doc,
                   t_links, output_csv>>
    /\ UNCHANGED notRel

(***************************************************************************)
(* reletedDataMain.py: process_file; reletedDataHelper.py: migrate_files   *)
(***************************************************************************)
Docs == {<<"069", 1>>, <<"069", 2>>}
\* A Task that is not in the input file, a User and an Account.
UnlistedTask == <<"00T", 0>>
FileUser == <<"005", 8>>
FileAccount == <<"001", 9>>
FileEntities == RelActivities \cup {UnlistedTask, FileUser, FileAccount}

\* LinkedEntity.Type
EntityType(e) ==
    IF e[1] = "00T" THEN "Task" ELSE IF e[1] = "005" THEN "User" ELSE "Account"

\* Id of the source ContentDocumentLink between doc and entity e.
LinkId(doc, e) == <<"06A", 10 * doc[2] + e[2]>>
\* The latest ContentVersion of a source document.
SrcVersionId(doc) == <<"068", doc[2]>>
\* The ContentDocument the target creates for a new ContentVersion.
TargetDocumentOf(ver_id) == <<"069t", ver_id[2]>>
\* The target User carrying the legacy id of source user u.
FileTargetUser(u) == <<"005t", u[2]>>

\* Lines 224-233: the documents linked to the activities of the chunk.
RelevantDocumentIds(links, ids_clause) ==
    {l[1] : l \in {k \in links : k[2] \in Range(ids_clause)}}

\* Lines 245-266: links_by_document as the list of its items; the links of
\* a document are listed by their LinkedEntityId.
LinksByDocument(links, docs) ==
    LET order == ById(docs)
    IN  [i \in DOMAIN order |->
            <<order[i], ById({l[2] : l \in {k \in links : k[1] = order[i]}})>>]

\* Lines 271-282: the User mapping fetch_target_mappings returns.
UserMappings(links, docs, users) ==
    LET all_user_ids == {l[2] : l \in {k \in links : k[1] \in docs /\ EntityType(k[2]) = "User"}}
    IN  [u \in all_user_ids \cap users |-> FileTargetUser(u)]

\* An entry of results_out for a link of a document.
FileOutcome(src_parent, tgt_parent, doc, src_entity, tgt_entity, status, error) ==
    [Type |-> "File", SourceActivityId |-> src_parent, TargetActivityId |-> tgt_parent,
     SourceDocumentId |-> doc.src_doc_id, TargetDocumentId |-> doc.doc_id,
     SourceVersionId |-> doc.src_ver_id, TargetVersionId |-> doc.ver_id,
     SourceLinkedEntityId |-> src_entity, TargetLinkedEntityId |-> tgt_entity,
     Status |-> status, Error |-> error]

\* Lines 318-331, 348-360, 401-414: every link of the document fails.
DocumentFailed(doc, links, src_ver, with_target, error) ==
    [i \in DOMAIN links |->
        FileOutcome(links[i],
                    IF with_target THEN DictGet(activity_map, links[i]) ELSE None,
                    [src_doc_id |-> doc, doc_id |-> None, src_ver_id |-> src_ver,
                     ver_id |-> None],
                    None, None, "Failed", error)]

\* Lines 339-344: the target of the first link that has one in activity_map.
FirstMapped(links) ==
    LET mapped == {i \in DOMAIN links : ~Missing(DictGet(activity_map, links[i]))}
    IN  IF mapped = {} THEN None
        ELSE links[CHOOSE i \in mapped : \A j \in mapped : i <= j]

\* Lines 426-441: the target parent of a link, None when it has none.
IsActivityLink(e) ==
    EntityType(e) \in {"Task", "Event", "EmailMessage"} \/ e \in DOMAIN activity_map

LinkTargetMutant(e, user_mappings) ==
    IF EntityType(e) = "Task" THEN TargetActivityId(e) ELSE DictGet(user_mappings, e)

LinkTarget(e, user_mappings) ==
    IF IsActivityLink(e) THEN DictGet(activity_map, e)
    ELSE IF EntityType(e) = "User" THEN DictGet(user_mappings, e)
    ELSE None

LinkError(e) ==
    IF IsActivityLink(e) THEN "No target activity mapping"
    ELSE IF EntityType(e) = "User" THEN "No target user mapping"
    ELSE "Unsupported LinkedEntity type"

\* Lines 371-378: the target links a new document to the
\* FirstPublishLocationId of its first version.
FirstPublishLink(ver_id, location, pos) == <<TargetDocumentOf(ver_id), location, pos>>

ExistingLinksMutant(doc_id, tgt_parent) == {}

\* Lines 460-466: SELECT Id FROM ContentDocumentLink WHERE ContentDocumentId =
\* doc_id AND LinkedEntityId = tgt_parent
ExistingLinks(doc_id, tgt_parent) ==
    {l \in t_links : l[1] = doc_id /\ l[2] = tgt_parent}

\* "SourceActivityId": src_parent if the entity is an activity else None
IfActivity(e, v) == IF EntityType(e) \in {"Task", "Event", "EmailMessage"} THEN v ELSE None

\* INPUT_FILES as committed, and the Event file its comments name.
TaskFile == "task_import_log.csv"
EventFile == "event_import_log.csv"

\* process_file's argument input_file.
InputFile == IF file_no = 0 THEN TaskFile ELSE input_files[file_no]

\* process_file, line 118: on to the next chunk of src_ids_all; the locals of
\* the stage that ended are gone.
NextChunk ==
    /\ start' = start + CHUNK_SIZE_ACTIVITIES
    /\ src_activity_ids' = Slice(src_ids_all, start + CHUNK_SIZE_ACTIVITIES,
                                 CHUNK_SIZE_ACTIVITIES)
    /\ rel_pc' = (IF start + CHUNK_SIZE_ACTIVITIES >= Len(src_ids_all)
                  THEN "done" ELSE "chunk_attachments")
    /\ links_by_document' = <<>>
    /\ document_links' = <<>>
    /\ global_user_mappings' = EmptyDict
    /\ cur_doc' = None

\* Where migrate_files goes once a document is dealt with.
NextDocument(docs) ==
    /\ links_by_document' = docs
    /\ document_links' = <<>>
    /\ cur_doc' = None
    /\ rel_pc' = (IF docs = <<>> THEN "chunk_feed" ELSE "files_doc")

\* process_file, lines 126-131: the attachment stage of the chunk returns,
\* or raises and the chunk is given up (line 156).  results_out holds the
\* File outcomes of all_results only.
ChunkAttachments ==
    /\ rel_pc = "chunk_attachments"
    /\ \/ /\ rel_pc' = "files"
          /\ UNCHANGED <<start, src_activity_ids, links_by_document, document_links,
                         global_user_mappings, cur_doc, faults>>
       \/ /\ CanFail
          /\ faults' = faults + 1
          /\ NextChunk
    /\ UNCHANGED <<rel_fn, activity_map, results_out, s_attachments, s_feeditems,
                   s_comments, fetched, valid_attachments, feeditems_by_parent,
                   source_to_target_fi, to_insert_comments, t_requests>>
    /\ UNCHANGED <<src_ids_all, s_links, s_versions, t_users, doc_cache, file_map,
                   t_links, output_csv>>
    /\ UNCHANGED notRel

\* migrate_files, lines 211-282: the links of the chunk's activities, all
\* links of their documents, the User mapping.  A raising safe_query ends
\* the call and the chunk; fetch_target_mappings swallows its failure and
\* returns no mapping.
FilesCollectLinks ==
    /\ rel_pc = "files"
    /\ LET relevant_document_ids ==
               RelevantDocumentIds(s_links, IdsClause(src_activity_ids))
       IN  \/ /\ relevant_document_ids = {}
              /\ rel_pc' = "chunk_feed"
              /\ UNCHANGED <<start, src_activity_ids, links_by_document, document_links,
                             global_user_mappings, cur_doc, faults>>
           \/ /\ relevant_document_ids # {}
              /\ links_by_document' = LinksByDocument(s_links, relevant_document_ids)
              /\ \/ /\ global_user_mappings' =
                           UserMappings(s_links, relevant_document_ids, t_users)
                    /\ UNCHANGED faults
                 \/ /\ CanFail
                    /\ UserMappings(s_links, relevant_document_ids, t_users) # EmptyDict
                    /\ faults' = faults + 1
                    /\ global_user_mappings' = EmptyDict
              /\ rel_pc' = "files_doc"
              /\ UNCHANGED <<start, src_activity_ids, document_links, cur_doc>>
           \/ /\ CanFail                        \* safe_query raises
              /\ faults' = faults + 1
              /\ NextChunk
    /\ UNCHANGED <<rel_fn, activity_map, results_out, s_attachments, s_feeditems,
                   s_comments, fetched, valid_attachments, feeditems_by_parent,
                   source_to_target_fi, to_insert_comments, t_requests>>
    /\ UNCHANGED <<src_ids_all, s_links, s_versions, t_users, doc_cache, file_map,
                   t_links, output_csv>>
    /\ UNCHANGED notRel

\* migrate_files, lines 285-415: the next document is taken from the
\* cache, or its latest version is downloaded and uploaded to the target.
FilesDocument ==
    /\ rel_pc = "files_doc"
    /\ LET src_doc_id == Head(links_by_document)[1]
           links == Head(links_by_document)[2]
           docs == Tail(links_by_document)
           src_ver_id == SrcVersionId(src_doc_id)
           first_source_parent == FirstMapped(links)
           first_target_parent == DictGet(activity_map, first_source_parent)
           pos == Len(t_requests) + 1
           tgt_ver_id == <<"tgt", pos>>
           uploadable == src_doc_id \in s_versions /\ first_source_parent # None
           fails(src_ver, with_target, error) ==
               /\ results_out' = results_out \o
                      DocumentFailed(src_doc_id, links, src_ver, with_target, error)
               /\ NextDocument(docs)
               /\ UNCHANGED <<doc_cache, file_map>>
           create(accepted) ==
               /\ t_requests' = Append(t_requests,
                      Request("ContentVersion", "rest", first_target_parent, src_doc_id,
                              first_source_parent, accepted, accepted, pos))
               /\ t_links' = (IF accepted
                              THEN t_links \cup {FirstPublishLink(tgt_ver_id,
                                                                 first_target_parent, pos)}
                              ELSE t_links)
       IN  IF src_doc_id \in DOMAIN doc_cache
           THEN /\ cur_doc' = [src_doc_id |-> src_doc_id] @@ doc_cache[src_doc_id]
                /\ file_map' = (IF doc_cache[src_doc_id].src_ver_id \in DOMAIN file_map
                                THEN file_map
                                ELSE DictSet(file_map, doc_cache[src_doc_id].src_ver_id,
                                             doc_cache[src_doc_id].ver_id))
                /\ document_links' = links
                /\ rel_pc' = "files_link"
                /\ UNCHANGED <<links_by_document, doc_cache, results_out, t_requests,
                               t_links, faults>>
           ELSE \/ /\ CanFail                   \* the version query raises
                   /\ faults' = faults + 1
                   /\ fails(None, TRUE, "ContentDocument migration failed")
                   /\ UNCHANGED <<t_requests, t_links>>
                \/ /\ src_doc_id \notin s_versions
                   /\ fails(None, TRUE, "No latest ContentVersion found")
                   /\ UNCHANGED <<t_requests, t_links, faults>>
                \/ /\ src_doc_id \in s_versions
                   /\ first_source_parent = None
                   /\ fails(src_ver_id, FALSE, "No target parent mapping")
                   /\ UNCHANGED <<t_requests, t_links, faults>>
                \/ /\ uploadable
                   /\ CanFail                   \* the download raises
                   /\ faults' = faults + 1
                   /\ fails(src_ver_id, TRUE, "ContentDocument migration failed")
                   /\ UNCHANGED <<t_requests, t_links>>
                \/ /\ uploadable
                   /\ CanFail                   \* ContentVersion.create raises
                   /\ faults' = faults + 1
                   /\ create(FALSE)
                   /\ fails(src_ver_id, TRUE, "ContentDocument migration failed")
                \/ /\ uploadable
                   /\ CanFail                   \* created; the query of line 383 raises
                   /\ faults' = faults + 1
                   /\ create(TRUE)
                   /\ fails(src_ver_id, TRUE, "ContentDocument migration failed")
                \/ /\ uploadable
                   /\ create(TRUE)
                   /\ file_map' = DictSet(file_map, src_ver_id, tgt_ver_id)
                   /\ doc_cache' = DictSet(doc_cache, src_doc_id,
                          [doc_id |-> TargetDocumentOf(tgt_ver_id), ver_id |-> tgt_ver_id,
                           src_ver_id |-> src_ver_id])
                   /\ cur_doc' = [src_doc_id |-> src_doc_id,
                                  doc_id |-> TargetDocumentOf(tgt_ver_id),
                                  ver_id |-> tgt_ver_id, src_ver_id |-> src_ver_id]
                   /\ document_links' = links
                   /\ rel_pc' = "files_link"
                   /\ UNCHANGED <<links_by_document, results_out, faults>>
    /\ UNCHANGED <<rel_fn, src_activity_ids, activity_map, s_attachments, s_feeditems,
                   s_comments, fetched, valid_attachments, feeditems_by_parent,
                   source_to_target_fi, to_insert_comments>>
    /\ UNCHANGED <<src_ids_all, start, s_links, s_versions, t_users,
                   global_user_mappings, output_csv>>
    /\ UNCHANGED notRel

\* migrate_files, lines 420-516: one link of the current document.
FilesLink ==
    /\ rel_pc = "files_link"
    /\ LET src_parent == Head(document_links)
           tgt_parent == LinkTarget(src_parent, global_user_mappings)
           pos == Len(t_requests) + 1
           outcome(tgt, status, error) ==
               results_out' = Append(results_out,
                   FileOutcome(IfActivity(src_parent, src_parent),
                               IfActivity(src_parent, tgt),
                               cur_doc,
                               IF tgt = None THEN None ELSE src_parent, tgt, status, error))
           create(accepted) ==
               t_requests' = Append(t_requests,
                   Request("ContentDocumentLink", "rest", tgt_parent,
                           LinkId(cur_doc.src_doc_id, src_parent), src_parent,
                           accepted, accepted, pos))
       IN  IF Missing(tgt_parent)
           THEN /\ outcome(None, "Failed", LinkError(src_parent))
                /\ UNCHANGED <<t_requests, t_links, faults>>
           ELSE \/ /\ CanFail                   \* the existence query raises
                   /\ faults' = faults + 1
                   /\ outcome(tgt_parent, "Failed", "ContentDocumentLink creation failed")
                   /\ UNCHANGED <<t_requests, t_links>>
                \/ /\ ExistingLinks(cur_doc.doc_id, tgt_parent) # {}
                   /\ outcome(tgt_parent, "Success", "")
                   /\ UNCHANGED <<t_requests, t_links, faults>>
                \/ /\ ExistingLinks(cur_doc.doc_id, tgt_parent) = {}
                   /\ CanFail                   \* ContentDocumentLink.create raises
                   /\ faults' = faults + 1
                   /\ create(FALSE)
                   /\ outcome(tgt_parent, "Failed", "ContentDocumentLink creation failed")
                   /\ UNCHANGED t_links
                \/ /\ ExistingLinks(cur_doc.doc_id, tgt_parent) = {}
                   /\ create(TRUE)
                   /\ t_links' = t_links \cup {<<cur_doc.doc_id, tgt_parent, pos>>}
                   /\ outcome(tgt_parent, "Success", "")
                   /\ UNCHANGED faults
    /\ IF Tail(document_links) = <<>>
       THEN NextDocument(Tail(links_by_document))
       ELSE /\ document_links' = Tail(document_links)
            /\ UNCHANGED <<links_by_document, cur_doc, rel_pc>>
    /\ UNCHANGED <<rel_fn, src_activity_ids, activity_map, s_attachments, s_feeditems,
                   s_comments, fetched, valid_attachments, feeditems_by_parent,
                   source_to_target_fi, to_insert_comments>>
    /\ UNCHANGED <<src_ids_all, start, s_links, s_versions, t_users, doc_cache, file_map,
                   global_user_mappings, output_csv>>
    /\ UNCHANGED notRel

\* process_file, lines 140-160: the feed stage of the chunk returns and the
\* checkpoint is written, or it raises and the chunk is given up.
ChunkFeed ==
    /\ rel_pc = "chunk_feed"
    /\ \/ /\ output_csv' = DictSet(output_csv, InputFile, results_out)
          /\ UNCHANGED faults
       \/ /\ CanFail
          /\ faults' = faults + 1
          /\ UNCHANGED output_csv
    /\ NextChunk
    /\ UNCHANGED <<rel_fn, activity_map, results_out, s_attachments, s_feeditems,
                   s_comments, fetched, valid_attachments, feeditems_by_parent,
                   source_to_target_fi, to_insert_comments, t_requests>>
    /\ UNCHANGED <<src_ids_all, s_links, s_versions, t_users, doc_cache, file_map, t_links>>
    /\ UNCHANGED notRel

\* ---- the routines' starting states ----
RelLocalsEmpty ==
    /\ results_out = <<>> /\ fetched = {} /\ valid_attachments = <<>>
    /\ feeditems_by_parent = <<>> /\ source_to_target_fi = EmptyDict
    /\ to_insert_comments = <<>> /\ t_requests = <<>> /\ faults = 0
    /\ links_by_document = <<>> /\ document_links = <<>>
    /\ global_user_mappings = EmptyDict /\ cur_doc = None
    /\ doc_cache = EmptyDict /\ file_map = EmptyDict /\ t_links = {}
    /\ output_csv = EmptyDict /\ start = 0

NoAttachmentData == s_attachments = EmptyDict
NoFeedData == s_feeditems = EmptyDict /\ s_comments = EmptyDict
NoFileData == src_ids_all = <<>> /\ s_links = {} /\ s_versions = {} /\ t_users = {}

RelIdle ==
    /\ rel_fn = "idle" /\ rel_pc = "idle"
    /\ src_activity_ids = <<>> /\ activity_map = EmptyDict
    /\ NoAttachmentData /\ NoFeedData /\ NoFileData
    /\ RelLocalsEmpty

\* The arguments of a direct call: the first k activities, and a mapping for
\* some of the activities.
ActivityIdLists == {[i \in 1 .. k |-> <<"00T", i>>] : k \in 0 .. MaxRelActivities}
ActivityMaps == {[a \in D |-> TargetActivityId(a)] : D \in SUBSET RelActivities}

AttachmentsInit ==
    /\ rel_fn = "migrate_attachments" /\ rel_pc = "attachments"
    /\ src_activity_ids \in ActivityIdLists
    /\ activity_map \in ActivityMaps
    /\ s_attachments \in UNION {[D -> RelActivities] : D \in SUBSET AttachmentIds}
    /\ NoFeedData /\ NoFileData
    /\ RelLocalsEmpty

FeedInit ==
    /\ rel_fn = "migrate_feed" /\ rel_pc = "feed"
    /\ src_activity_ids \in ActivityIdLists
    /\ activity_map \in ActivityMaps
    /\ s_feeditems \in UNION {[D -> RelActivities] : D \in SUBSET FeedItemIds}
    /\ s_comments \in UNION {[D -> DOMAIN s_feeditems] : D \in SUBSET CommentIds}
    /\ NoAttachmentData /\ NoFileData
    /\ RelLocalsEmpty

\* The ContentDocumentLinks of the source org, as far as the run can see
\* them: those of the documents linked to an activity of the input file.
LinkTables ==
    {L \in SUBSET (Docs \X FileEntities) :
        /\ Cardinality(L) <= MaxLinks
        /\ \A l \in L : \E k \in L : k[1] = l[1] /\ k[2] \in RelActivities}

\* process_file up to line 118: the cache is reset, activity_map has a
\* target for every activity of the input file (rows without one are
\* dropped), and the first chunk is taken.
ProcessFileInit ==
    /\ rel_fn = "process_file" /\ rel_pc = "chunk_attachments"
    /\ src_ids_all = ById(RelActivities)
    /\ activity_map = [a \in RelActivities |-> TargetActivityId(a)]
    /\ src_activity_ids = Slice(src_ids_all, 0, CHUNK_SIZE_ACTIVITIES)
    /\ s_links \in LinkTables
    /\ s_versions \in SUBSET {l[1] : l \in s_links}
    /\ t_users \in SUBSET ({l[2] : l \in s_links} \cap {FileUser})
    /\ NoAttachmentData /\ NoFeedData
    /\ RelLocalsEmpty

RelInit ==
    \/ AttachmentsInit
    \/ FeedInit
    \/ ProcessFileInit

RelNext ==
    \/ AttachmentsFetch
    \/ AttachmentStep
    \/ FeedFetch
    \/ FeedParentUnmapped
    \/ FeedItemBatch
    \/ FeedFetchComments
    \/ FeedCommentBatch
    \/ ChunkAttachments
    \/ FilesCollectLinks
    \/ FilesDocument
    \/ FilesLink
    \/ ChunkFeed

(***************************************************************************)
(* FeedItemMigration.py: migrate_feeditems, fetch_filtered_feeditems       *)
(* EmailMessageMigration.py: export_activity, fetch_em_records,            *)
(* fetch_target_ids, insert_emailmessages_with_retry                       *)
(***************************************************************************)
GRoutines == {"migrate_feeditems", "export_activity"}

\* Source records: FeedItems for migrate_feeditems, EmailMessages for
\* export_activity.
GRecordIds(fn) ==
    {<<IF fn = "migrate_feeditems" THEN "0D5" ELSE "02s", n>> : n \in 1 .. MaxParented}

\* Their possible parents: Accounts for FeedItems (the only entry of
\* OBJECT_CONDITIONS); Impact_Tracker__c and ServiceAppointment records for
\* EmailMessages.
GParentIds(fn) ==
    IF fn = "migrate_feeditems" THEN {<<"001", 1>>, <<"001", 2>>}
    ELSE {<<"a0T", 1>>, <<"a0T", 2>>, <<"08p", 3>>}

\* Parent.Type / RelatedTo.Type
ParentType(p) ==
    IF p[1] = "001" THEN "Account"
    ELSE IF p[1] = "a0T" THEN "Impact_Tracker__c" ELSE "ServiceAppointment"

\* The target record carrying the legacy id p.
GTargetId(p) == <<"t", p[2]>>

\* parent_ids / parent_map: the parents of the records fetched.
ParentsOf(recs) == {g_source[r].parent : r \in Range(recs)}

\* SELECT Id FROM obj WHERE Id IN (ids) AND condition
ConditionQuery(ids, eligible) == ids \cap eligible

FilterByParentMutant(recs, valid) == recs

\* [r for r in records if r[parent] in valid]
FilterByParent(recs, valid) ==
    SelectAt(recs, {i \in DOMAIN recs : g_source[recs[i]].parent \in valid})

\* fetch_target_mappings over the parents of recs, one call per object; the
\* call for an object whose query fails contributes nothing.
GTargetMappings(recs, answered) ==
    [p \in {q \in ParentsOf(recs) \cap g_target : ParentType(q) \in answered} |->
        GTargetId(p)]

\* FeedItemMigration.py line 203, EmailMessageMigration.py lines 208-213:
\* why a record is not inserted, "" if it is.
GSkipReason(fn, r, m) ==
    IF fn = "migrate_feeditems"
    THEN IF Missing(DictGet(m, g_source[r].parent)) THEN "Skipped - No Parent Mapping"
         ELSE IF g_source[r].flawed THEN "Skipped - Invalid Body" ELSE ""
    ELSE IF Missing(DictGet(m, g_source[r].parent)) THEN "No mapped parent"
         ELSE IF g_source[r].flawed THEN "Unmapped EmailTemplate" ELSE ""

\* The result rows of the records skipped, and the records to insert.
GSkipped(fn, recs, m) ==
    LET s == SelectAt(recs, {i \in DOMAIN recs : GSkipReason(fn, recs[i], m) # ""})
    IN  [i \in DOMAIN s |-> <<s[i], None, GSkipReason(fn, s[i], m)>>]

GPrepared(fn, recs, m) ==
    SelectAt(recs, {i \in DOMAIN recs : GSkipReason(fn, recs[i], m) = ""})

\* The result rows of a batch the target answered, having accepted the
\* records `accepted`, and of one whose insert raised.
GInserted(batch, base, accepted) ==
    [i \in DOMAIN batch |->
        IF i \in accepted THEN <<batch[i], <<"new", base + i>>, "Success">>
        ELSE <<batch[i], None, "Failed">>]

GFailed(batch) == GInserted(batch, 0, {})

GIdle ==
    /\ g_fn = "idle" /\ g_pc = "idle"
    /\ g_source = EmptyDict /\ g_eligible = {} /\ g_eligible2 = {} /\ g_target = {}
    /\ filtered = <<>> /\ all_mappings = EmptyDict /\ prepared_records = <<>>
    /\ g_attempt = 0 /\ g_requests = <<>> /\ g_results = <<>>

\* The two orgs as far as the run can see them: the parents of the source
\* records.
GParents == {g_source[r].parent : r \in DOMAIN g_source}

GInit ==
    /\ g_fn \in GRoutines
    /\ g_pc = "fetch"
    /\ g_source \in UNION {[D -> [parent : GParentIds(g_fn), flawed : BOOLEAN]] :
                             D \in SUBSET GRecordIds(g_fn)}
    /\ g_eligible \in SUBSET GParents
    /\ g_eligible2 \in SUBSET {p \in GParents : ParentType(p) = "ServiceAppointment"}
    /\ g_target \in SUBSET GParents
    /\ filtered = <<>> /\ all_mappings = EmptyDict /\ prepared_records = <<>>
    /\ g_attempt = 0 /\ g_requests = <<>> /\ g_results = <<>>

\* FeedItemMigration.py lines 100-147 and 158-164: fetch_filtered_feeditems
\* returns the FeedItems whose parent meets the condition, or [] when one
\* of its queries raises; without FeedItems the object is passed over and
\* nothing is inserted.
FeedItemsFetch ==
    /\ g_fn = "migrate_feeditems" /\ g_pc = "fetch"
    /\ LET feeditems == ById(DOMAIN g_source)
           valid_parents == ConditionQuery(ParentsOf(feeditems), g_eligible)
       IN  \/ filtered' = FilterByParent(feeditems, valid_parents)
           \/ filtered' = <<>>                  \* a query raised
    /\ g_pc' = (IF filtered' = <<>> THEN "done" ELSE "mappings")
    /\ UNCHANGED <<g_fn, g_source, g_eligible, g_eligible2, g_target, all_mappings,
                   prepared_records, g_attempt, g_requests, g_results>>
    /\ UNCHANGED notElig

\* FeedItemMigration.py lines 166-212: the parent mapping (a failed query is
\* passed over), the CreatedBy mapping (its query has no handler) and the
\* rows of the records skipped.
FeedItemsMappings ==
    /\ g_fn = "migrate_feeditems" /\ g_pc = "mappings"
    /\ \/ \E answered \in SUBSET {"Account"} :
            LET m == GTargetMappings(filtered, answered)
            IN  /\ all_mappings' = m
                /\ g_results' = GSkipped(g_fn, filtered, m)
                /\ prepared_records' = GPrepared(g_fn, filtered, m)
                /\ g_pc' = (IF GPrepared(g_fn, filtered, m) = <<>> THEN "done" ELSE "insert")
       \/ /\ g_pc' = "raised"                   \* fetch_createdByIds raises
          /\ UNCHANGED <<all_mappings, g_results, prepared_records>>
    /\ UNCHANGED <<g_fn, g_source, g_eligible, g_eligible2, g_target, filtered,
                   g_attempt, g_requests>>
    /\ UNCHANGED notElig

\* FeedItemMigration.py lines 191-268: one chunk of BATCH_SIZE FeedItems is
\* sent to the target; the insert answers or raises.
FeedItemsInsert ==
    /\ g_fn = "migrate_feeditems" /\ g_pc = "insert"
    /\ LET target_feeditems == Slice(prepared_records, 0, BATCH_SIZE)
           rest == Slice(prepared_records, BATCH_SIZE, Len(prepared_records))
       IN  /\ g_requests' = Append(g_requests, target_feeditems)
           /\ \/ \E accepted \in SUBSET DOMAIN target_feeditems :
                    g_results' = g_results \o
                        GInserted(target_feeditems, Len(g_results), accepted)
              \/ g_results' = g_results \o GFailed(target_feeditems)
           /\ prepared_records' = rest
           /\ g_pc' = (IF rest = <<>> THEN "done" ELSE "insert")
    /\ UNCHANGED <<g_fn, g_source, g_eligible, g_eligible2, g_target, filtered,
                   all_mappings, g_attempt>>
    /\ UNCHANGED notElig

\* mappings.py lines 156-212, called at EmailMessageMigration.py line 88:
\* the ServiceAppointments meeting condition 1 or condition 2; a batch whose
\* first query raises is passed over, one whose second query raises keeps
\* the result of the first.
ServiceAppointmentIds(sa_ids) ==
    IF sa_ids = {} THEN {{}}
    ELSE {ConditionQuery(sa_ids, g_eligible) \cup ConditionQuery(sa_ids, g_eligible2),
          ConditionQuery(sa_ids, g_eligible),
          {}}

\* EmailMessageMigration.py lines 40-136 and 206-227: fetch_em_records keeps
\* the EmailMessages whose parent meets the condition of its type;
\* fetch_target_ids resolves the parents; the loop splits the records into
\* prepared and skipped.  safe_query and read_csv have no handler.
EmFetch ==
    /\ g_fn = "export_activity" /\ g_pc = "fetch"
    /\ LET emails == ById(DOMAIN g_source)
           it_ids == {p \in ParentsOf(emails) : ParentType(p) = "Impact_Tracker__c"}
           sa_ids == {p \in ParentsOf(emails) : ParentType(p) = "ServiceAppointment"}
       IN  \/ \E sa \in ServiceAppointmentIds(sa_ids),
                 answered \in SUBSET {"Impact_Tracker__c", "ServiceAppointment"} :
                LET valid_parent_ids == ConditionQuery(it_ids, g_eligible) \cup sa
                    em_records == IF valid_parent_ids = {} THEN <<>>
                                  ELSE FilterByParent(emails, valid_parent_ids)
                    m == GTargetMappings(em_records, answered)
                IN  /\ filtered' = em_records
                    /\ all_mappings' = m
                    /\ g_results' = GSkipped(g_fn, em_records, m)
                    /\ prepared_records' = GPrepared(g_fn, em_records, m)
                    /\ g_pc' = (IF GPrepared(g_fn, em_records, m) = <<>>
                                THEN "done" ELSE "insert")
           \/ /\ g_pc' = "raised"
              /\ UNCHANGED <<filtered, all_mappings, g_results, prepared_records>>
    /\ UNCHANGED <<g_fn, g_source, g_eligible, g_eligible2, g_target, g_attempt,
                   g_requests>>
    /\ UNCHANGED notElig

\* EmailMessageMigration.py lines 155-189: one attempt to insert the current
\* batch; after EmMaxRetries failed attempts the batch is marked failed.
EmInsertAttempt ==
    /\ g_fn = "export_activity" /\ g_pc = "insert"
    /\ LET batch == Slice(prepared_records, 0, BATCH_SIZE)
           rest == Slice(prepared_records, BATCH_SIZE, Len(prepared_records))
           next(results) ==
               /\ g_results' = g_results \o results
               /\ prepared_records' = rest
               /\ g_attempt' = 0
               /\ g_pc' = (IF rest = <<>> THEN "done" ELSE "insert")
       IN  /\ g_requests' = Append(g_requests, batch)
           /\ \/ \E accepted \in SUBSET DOMAIN batch :
                    next(GInserted(batch, Len(g_results), accepted))
              \/ /\ g_attempt = EmMaxRetries - 1
                 /\ next(GFailed(batch))
              \/ /\ g_attempt < EmMaxRetries - 1
                 /\ g_attempt' = g_attempt + 1
                 /\ UNCHANGED <<g_results, prepared_records, g_pc>>
    /\ UNCHANGED <<g_fn, g_source, g_eligible, g_eligible2, g_target, filtered,
                   all_mappings>>
    /\ UNCHANGED notElig

GNext ==
    \/ FeedItemsFetch
    \/ FeedItemsMappings
    \/ FeedItemsInsert
    \/ EmFetch
    \/ EmInsertAttempt

(***************************************************************************)
(* reletedDataMain.py: main                                                *)
(***************************************************************************)
MainIdle ==
    /\ files_dir = EmptyDict /\ input_files = <<>> /\ file_no = 0
    /\ processed_files = 0 /\ failed_files = 0 /\ m_run = 0

\* The mapping files on disk: the Task file lists the first activity or all
\* of them, the Event file the last one; either may be missing.
FileSystems ==
    {fs \in UNION {[D -> DistinctSeqsUpTo(RelActivities, MaxRelActivities)] :
                      D \in SUBSET {TaskFile, EventFile}} :
        /\ TaskFile \in DOMAIN fs =>
              fs[TaskFile] \in {Slice(ById(RelActivities), 0, 1), ById(RelActivities)}
        /\ EventFile \in DOMAIN fs =>
              fs[EventFile] = Slice(ById(RelActivities), MaxRelActivities - 1, 1)}

\* main is started: the source org, the target's users and the files are
\* given; nothing has been migrated.
MainInit ==
    /\ rel_fn = "main" /\ rel_pc = "main"
    /\ input_files \in {<<TaskFile>>, <<TaskFile, EventFile>>}
    /\ files_dir \in FileSystems
    /\ file_no = 1 /\ processed_files = 0 /\ failed_files = 0 /\ m_run = 1
    /\ src_ids_all = <<>> /\ src_activity_ids = <<>> /\ activity_map = EmptyDict
    /\ s_links \in {L \in LinkTables : Cardinality(L) < MaxLinks}
    /\ s_versions = {l[1] : l \in s_links}
    /\ t_users = {l[2] : l \in s_links} \cap {FileUser}
    /\ NoAttachmentData /\ NoFeedData
    /\ RelLocalsEmpty

\* What main and process_file leave alone.
MainFrame ==
    /\ UNCHANGED <<rel_fn, s_attachments, s_feeditems, s_comments, fetched,
                   valid_attachments, feeditems_by_parent, source_to_target_fi,
                   to_insert_comments, t_requests, s_links, s_versions, t_users,
                   links_by_document, document_links, global_user_mappings, cur_doc,
                   t_links, output_csv>>
    /\ UNCHANGED <<files_dir, input_files, m_run>>
    /\ UNCHANGED notMain

\* main, lines 180-202: the two connections; a failure is fatal.
MainConnect ==
    /\ rel_pc = "main"
    /\ \/ /\ rel_pc' = "main_loop"
          /\ UNCHANGED faults
       \/ /\ CanFail
          /\ faults' = faults + 1
          /\ rel_pc' = "raised"
    /\ UNCHANGED <<src_activity_ids, activity_map, results_out, src_ids_all, start,
                   doc_cache, file_map, file_no, processed_files, failed_files>>
    /\ MainFrame

\* main, lines 204-216 with process_file, lines 66-121: the next input file.
\* A missing file and one without valid rows make process_file return; a
\* file that cannot be read makes it raise; otherwise the cache is reset
\* and the first chunk is taken.
MainProcessFile ==
    /\ rel_pc = "main_loop"
    /\ file_no <= Len(input_files)
    /\ LET returns ==
               /\ processed_files' = processed_files + 1
               /\ file_no' = file_no + 1
               /\ UNCHANGED <<rel_pc, failed_files, src_activity_ids, activity_map,
                              results_out, src_ids_all, start, file_map, faults>>
       IN  IF InputFile \notin DOMAIN files_dir
           THEN returns /\ UNCHANGED doc_cache
           ELSE /\ doc_cache' = EmptyDict       \* reset_file_migration_cache()
                /\ \/ /\ files_dir[InputFile] = <<>>
                      /\ returns
                   \/ /\ CanFail               \* read_csv raises
                      /\ faults' = faults + 1
                      /\ failed_files' = failed_files + 1
                      /\ file_no' = file_no + 1
                      /\ UNCHANGED <<rel_pc, processed_files, src_activity_ids,
                                     activity_map, results_out, src_ids_all, start,
                                     file_map>>
                   \/ /\ files_dir[InputFile] # <<>>
                      /\ src_ids_all' = files_dir[InputFile]
                      /\ activity_map' = [a \in Range(files_dir[InputFile]) |->
                                              TargetActivityId(a)]
                      /\ results_out' = <<>>
                      /\ file_map' = EmptyDict
                      /\ start' = 0
                      /\ src_activity_ids' =
                             Slice(files_dir[InputFile], 0, CHUNK_SIZE_ACTIVITIES)
                      /\ rel_pc' = "chunk_attachments"
                      /\ UNCHANGED <<file_no, processed_files, failed_files, faults>>
    /\ MainFrame

\* main, lines 208-210: process_file has returned after its last chunk.
MainFileProcessed ==
    /\ rel_fn = "main" /\ rel_pc = "done"
    /\ processed_files' = processed_files + 1
    /\ file_no' = file_no + 1
    /\ rel_pc' = "main_loop"
    /\ UNCHANGED <<src_activity_ids, activity_map, results_out, src_ids_all, start,
                   doc_cache, file_map, failed_files, faults>>
    /\ MainFrame

\* main, lines 218-230: the loop is over.
MainEnds ==
    /\ rel_pc = "main_loop"
    /\ file_no > Len(input_files)
    /\ rel_pc' = "main_done"
    /\ UNCHANGED <<src_activity_ids, activity_map, results_out, src_ids_all, start,
                   doc_cache, file_map, file_no, processed_files, failed_files, faults>>
    /\ MainFrame

\* The script is run again on the same files against the orgs as the
\* previous run left them: a new process, in which migrate_files has no
\* doc_cache yet.
MainAgain ==
    /\ rel_pc = "main_done"
    /\ m_run < MaxRuns
    /\ m_run' = m_run + 1
    /\ file_no' = 1 /\ processed_files' = 0 /\ failed_files' = 0
    /\ src_ids_all' = <<>> /\ src_activity_ids' = <<>> /\ activity_map' = EmptyDict
    /\ results_out' = <<>> /\ start' = 0
    /\ doc_cache' = EmptyDict /\ file_map' = EmptyDict
    /\ rel_pc' = "main"
    /\ UNCHANGED <<rel_fn, s_attachments, s_feeditems, s_comments, fetched,
                   valid_attachments, feeditems_by_parent, source_to_target_fi,
                   to_insert_comments, t_requests, s_links, s_versions, t_users,
                   links_by_document, document_links, global_user_mappings, cur_doc,
                   t_links, output_csv, faults>>
    /\ UNCHANGED <<files_dir, input_files>>
    /\ UNCHANGED notMain

MainNext ==
    \/ MainConnect
    \/ MainProcessFile
    \/ MainFileProcessed
    \/ MainEnds
    \/ MainAgain
    \/ ChunkAttachments
    \/ FilesCollectLinks
    \/ FilesDocument
    \/ FilesLink
    \/ ChunkFeed

(***************************************************************************)
(* CdlMigration.py: query_all                                              *)
(* fetchCDL1.py: safe_query_all                                            *)
(***************************************************************************)
QaRoutines == {"query_all", "safe_query_all"}

\* What one call of the wrapped function costs in invocations of the org's
\* query, `remote` of them made so far: query_all wraps sf.query_all itself;
\* safe_query_all wraps safe_query, which invokes the query until it
\* answers, SafeQueryMaxRetries + 1 times at most.
WrappedCalls(fn) ==
    IF fn = "query_all" THEN 1 ELSE Cardinality(Attempts(SafeQueryMaxRetries))

WrappedRaises(fn, remote, failFirst) == failFirst - remote >= WrappedCalls(fn)

WrappedCost(fn, remote, failFirst) ==
    IF WrappedRaises(fn, remote, failFirst) THEN WrappedCalls(fn)
    ELSE IF failFirst > remote THEN failFirst - remote + 1 ELSE 1

\* `if attempts > MAX_RETRIES:` after `attempts += 1`
GivesUpMutant(a) == a > MAX_RETRIES + 1
GivesUp(a) == a > MAX_RETRIES

\* wait = RETRY_SLEEP_SECS * (2 ** (attempts - 1))
QueryAllWaitMutant(a) == RETRY_SLEEP_SECS * Pow2(a)
QueryAllWait(a) == RETRY_SLEEP_SECS * Pow2(a - 1)

QaIdle ==
    /\ q_fn = "query_all" /\ q_failFirst = 0 /\ attempts = 0 /\ q_calls = 0
    /\ q_remote = 0 /\ q_waits = <<>> /\ q_pc = "idle"

QaInit ==
    /\ q_fn \in QaRoutines
    /\ q_failFirst \in 0 .. ((MAX_RETRIES + 1) * WrappedCalls(q_fn) + 1)
    /\ attempts = 0
    /\ q_calls = 0
    /\ q_remote = 0
    /\ q_waits = <<>>
    /\ q_pc = "loop"

\* One pass of `while True`: the wrapped call returns, or it raises and the
\* handler counts the attempt, then re-raises or sleeps.
QueryAllIteration ==
    /\ q_pc = "loop"
    /\ q_calls' = q_calls + 1
    /\ q_remote' = q_remote + WrappedCost(q_fn, q_remote, q_failFirst)
    /\ IF WrappedRaises(q_fn, q_remote, q_failFirst)
       THEN /\ attempts' = attempts + 1
            /\ IF GivesUp(attempts + 1)
               THEN /\ q_pc' = "raised"
                    /\ UNCHANGED q_waits
               ELSE /\ q_waits' = Append(q_waits, QueryAllWait(attempts + 1))
                    /\ UNCHANGED q_pc
       ELSE /\ q_pc' = "returned"
            /\ UNCHANGED <<attempts, q_waits>>
    /\ UNCHANGED <<q_fn, q_failFirst>>
    /\ UNCHANGED notQa

QaNext ==
    \/ QueryAllIteration

(***************************************************************************)
(* CdlMigration.py: migrate_versions, migrate_one_document                 *)
(* MigrateCDlPart2.py: migrate_versions, migrate_one                       *)
(***************************************************************************)
ParRoutines == {"CdlMigration", "MigrateCDlPart2"}
ParDocs == {<<"069", n>> : n \in 1 .. MaxParDocs}
ParParent == "001T1"

\* A mapping row: its Target_Parent_Id ("" when empty), and whether its
\* ShareType / Visibility are missing while it has a Source_Parent_Id, so
\* that the worker looks them up in link_meta.
MapRow(parent, lookup) == [Target_Parent_Id |-> parent, lookup |-> lookup]

\* The rows a document can have.  MigrateCDlPart2 reads the mapping file
\* into a dict: one Target_Parent_Id per document.
MapRowLists(fn) ==
    IF fn = "MigrateCDlPart2"
    THEN {<<MapRow(ParParent, FALSE)>>, <<MapRow("", FALSE)>>}
    ELSE {<<MapRow(ParParent, TRUE)>>, <<MapRow("", FALSE)>>,
          <<MapRow(ParParent, FALSE), MapRow("", FALSE)>>,
          <<MapRow("", FALSE), MapRow(ParParent, TRUE)>>}

\* The ContentDocument the target org creates for an uploaded version.
NewDocId(d) == <<"069T", d[2]>>

\* An entry that names the document in place of its parent.
ResultEntryMutant(d, parent) ==
    [Old_ContentDocumentId |-> d, New_ContentDocumentId |-> NewDocId(d),
     Target_Parent_Id |-> "069"]

\* The entry a worker returns for a row.
ResultEntry(d, parent) ==
    [Old_ContentDocumentId |-> d, New_ContentDocumentId |-> NewDocId(d),
     Target_Parent_Id |-> parent]

\* The thread a worker function runs in, and the thread that runs the
\* `for f in as_completed(futures)` loop: the caller of migrate_versions.
WorkerThread(d) == <<"worker", d[2]>>
MainThread == <<"main", 0>>
CollectorMutant(d) == WorkerThread(d)
Collector(d) == MainThread

\* doc_ids = list(by_doc.keys()), and its current chunk.
DocIds == ById(DOMAIN by_doc)
DocChunk == Slice(DocIds, p_c, CHUNK_SIZE)

Running == {d \in DOMAIN futures : futures[d] \in {"download", "upload", "link"}}

ParIdle ==
    /\ p_fn = "CdlMigration" /\ by_doc = EmptyDict /\ link_meta = {}
    /\ latest_by_doc = {} /\ p_c = 0 /\ futures = EmptyDict /\ w_results = EmptyDict
    /\ w_row = EmptyDict /\ p_results = <<>> /\ p_csv = <<>> /\ p_writes = {}
    /\ p_reads = {} /\ p_pc = "idle" /\ t_versions = EmptyDict /\ t_cdls = {}
    /\ p_run = 0

\* migrate_versions up to the chunk loop: the rows are grouped, the latest
\* versions and the missing link metadata are fetched.
ParInit ==
    /\ p_fn \in ParRoutines
    /\ by_doc \in UNION {[D -> MapRowLists(p_fn)] : D \in SUBSET ParDocs}
    /\ latest_by_doc \in SUBSET (DOMAIN by_doc)
    /\ link_meta \in SUBSET {d \in DOMAIN by_doc : \E i \in DOMAIN by_doc[d] : by_doc[d][i].lookup}
    /\ p_c = 0
    /\ futures = EmptyDict
    /\ w_results = EmptyDict
    /\ w_row = EmptyDict
    /\ p_results = <<>>
    /\ p_csv = <<>>
    /\ p_writes = {}
    /\ p_reads = {}
    /\ p_pc = (IF by_doc = EmptyDict THEN "done" ELSE "submit")
    /\ t_versions = [d \in DOMAIN by_doc |-> 0]
    /\ t_cdls = {}
    /\ p_run = 1

\* The executor.submit calls of one chunk.  CdlMigration submits every
\* document of the chunk, with its version or None; MigrateCDlPart2 submits
\* the versions fetch_contentversions returned, none when its query raised.
ParSubmit ==
    /\ p_pc = "submit"
    /\ \E submitted \in (IF p_fn = "CdlMigration" THEN {Range(DocChunk)}
                         ELSE {Range(DocChunk) \cap latest_by_doc, {}}) :
          /\ futures' = [d \in submitted |-> "pending"]
          /\ w_results' = [d \in submitted |-> <<>>]
          /\ w_row' = [d \in submitted |-> 1]
    /\ p_pc' = "collect"
    /\ UNCHANGED <<p_fn, by_doc, link_meta, latest_by_doc, p_c, p_results, p_csv,
                   p_writes, p_reads>>
    /\ UNCHANGED <<t_versions, t_cdls>>
    /\ UNCHANGED p_run
    /\ UNCHANGED notPar

\* A pool thread takes a submitted call: at most MAX_WORKERS run at a time.
\* migrate_one_document returns [] at once for a document without version.
WorkerStart(d) ==
    /\ d \in DOMAIN futures /\ futures[d] = "pending"
    /\ Cardinality(Running) < MAX_WORKERS
    /\ futures' = [futures EXCEPT ![d] = IF d \in latest_by_doc THEN "download" ELSE "done"]
    /\ UNCHANGED <<p_fn, by_doc, link_meta, latest_by_doc, p_c, w_results, w_row,
                   p_results, p_csv, p_writes, p_reads, p_pc>>
    /\ UNCHANGED <<t_versions, t_cdls>>
    /\ UNCHANGED p_run
    /\ UNCHANGED notPar

\* download_file_as_base64: the worker goes on, or returns nothing when the
\* download raises (CdlMigration: or when the version exceeds the REST limit).
WorkerDownload(d) ==
    /\ d \in DOMAIN futures /\ futures[d] = "download"
    /\ \E ok \in BOOLEAN : futures' = [futures EXCEPT ![d] = IF ok THEN "upload" ELSE "done"]
    /\ UNCHANGED <<p_fn, by_doc, link_meta, latest_by_doc, p_c, w_results, w_row,
                   p_results, p_csv, p_writes, p_reads, p_pc>>
    /\ UNCHANGED <<t_versions, t_cdls>>
    /\ UNCHANGED p_run
    /\ UNCHANGED notPar

\* ContentVersion.create and ContentVersion.get in the target: both
\* return, or create raises, or the version is created and get raises.
WorkerUpload(d) ==
    /\ d \in DOMAIN futures /\ futures[d] = "upload"
    /\ \/ /\ t_versions' = [t_versions EXCEPT ![d] = @ + 1]
          /\ futures' = [futures EXCEPT ![d] = "link"]
       \/ /\ UNCHANGED t_versions
          /\ futures' = [futures EXCEPT ![d] = "done"]
       \/ /\ t_versions' = [t_versions EXCEPT ![d] = @ + 1]
          /\ futures' = [futures EXCEPT ![d] = "done"]
    /\ UNCHANGED <<p_fn, by_doc, link_meta, latest_by_doc, p_c, w_results, w_row,
                   p_results, p_csv, p_writes, p_reads, p_pc, t_cdls>>
    /\ UNCHANGED p_run
    /\ UNCHANGED notPar

\* One row of rows_for_doc: the link metadata is looked up when the row
\* lacks it, the link is created when the row has a target parent (a failed
\* create_cdl is logged), and the row's entry is appended to the worker's
\* own list.  migrate_one has one row and returns its one entry.
WorkerLink(d) ==
    /\ d \in DOMAIN futures /\ futures[d] = "link"
    /\ LET row == by_doc[d][w_row[d]]
       IN  /\ w_results' = [w_results EXCEPT
                  ![d] = Append(@, ResultEntry(d, row.Target_Parent_Id))]
           /\ p_reads' = IF row.Target_Parent_Id # "" /\ row.lookup
                         THEN p_reads \cup {<<WorkerThread(d), "link_meta">>}
                         ELSE p_reads
    /\ IF w_row[d] < Len(by_doc[d])
       THEN /\ w_row' = [w_row EXCEPT ![d] = @ + 1]
            /\ UNCHANGED futures
       ELSE /\ futures' = [futures EXCEPT ![d] = "done"]
            /\ UNCHANGED w_row
    /\ IF by_doc[d][w_row[d]].Target_Parent_Id # ""
       THEN \E created \in BOOLEAN :
               t_cdls' = IF created THEN t_cdls \cup {<<d, w_row[d]>>} ELSE t_cdls
       ELSE UNCHANGED t_cdls
    /\ UNCHANGED <<p_fn, by_doc, link_meta, latest_by_doc, p_c, p_results, p_csv,
                   p_writes, p_pc, t_versions>>
    /\ UNCHANGED p_run
    /\ UNCHANGED notPar

\* One pass of `for f in as_completed(futures)`: the result of a finished
\* call is added to results (MigrateCDlPart2: and written to the csv file)
\* when it is not empty.
ParCollect(d) ==
    /\ p_pc = "collect"
    /\ d \in DOMAIN futures /\ futures[d] = "done"
    /\ futures' = [futures EXCEPT ![d] = "collected"]
    /\ IF w_results[d] # <<>>
       THEN /\ p_results' = p_results \o w_results[d]
            /\ p_csv' = (IF p_fn = "MigrateCDlPart2" THEN p_csv \o w_results[d] ELSE p_csv)
            /\ p_writes' = p_writes \cup {<<Collector(d), "results">>} \cup
                   (IF p_fn = "MigrateCDlPart2" THEN {<<Collector(d), "writer">>} ELSE {})
       ELSE UNCHANGED <<p_results, p_csv, p_writes>>
    /\ UNCHANGED <<p_fn, by_doc, link_meta, latest_by_doc, p_c, w_results, w_row,
                   p_reads, p_pc>>
    /\ UNCHANGED <<t_versions, t_cdls>>
    /\ UNCHANGED p_run
    /\ UNCHANGED notPar

\* The end of the `with` block: every call of the chunk has been collected.
ParChunkDone ==
    /\ p_pc = "collect"
    /\ \A d \in DOMAIN futures : futures[d] = "collected"
    /\ p_c' = p_c + CHUNK_SIZE
    /\ p_pc' = (IF p_c + CHUNK_SIZE < Len(DocIds) THEN "submit" ELSE "done")
    /\ UNCHANGED <<p_fn, by_doc, link_meta, latest_by_doc, futures, w_results, w_row,
                   p_results, p_csv, p_writes, p_reads>>
    /\ UNCHANGED <<t_versions, t_cdls>>
    /\ UNCHANGED p_run
    /\ UNCHANGED notPar

\* MigrateCDlPart2.py: the script is stopped before it is through and is
\* started again on the same mapping file.  The output file, opened in
\* append mode and flushed after every row, and the target org keep what
\* the first run left; migrate_versions starts over with
\* cd_ids = list(mapping_dict.keys()).
ParRunAgain ==
    /\ p_fn = "MigrateCDlPart2" /\ p_run = 1
    /\ p_pc \in {"submit", "collect"}
    /\ p_run' = 2
    /\ p_c' = 0
    /\ futures' = EmptyDict
    /\ w_results' = EmptyDict
    /\ w_row' = EmptyDict
    /\ p_results' = <<>>
    /\ p_pc' = "submit"
    /\ UNCHANGED <<p_fn, by_doc, link_meta, latest_by_doc, p_csv, p_writes, p_reads,
                   t_versions, t_cdls>>
    /\ UNCHANGED notPar

ParNext ==
    \/ ParSubmit
    \/ \E d \in ParDocs : WorkerStart(d)
    \/ \E d \in ParDocs : WorkerDownload(d)
    \/ \E d \in ParDocs : WorkerUpload(d)
    \/ \E d \in ParDocs : WorkerLink(d)
    \/ \E d \in ParDocs : ParCollect(d)
    \/ ParChunkDone

\* A run of MigrateCDlPart2 that may be stopped and started again.
ResumeNext ==
    \/ ParSubmit
    \/ \E d \in ParDocs : WorkerStart(d)
    \/ \E d \in ParDocs : WorkerDownload(d)
    \/ \E d \in ParDocs : WorkerUpload(d)
    \/ \E d \in ParDocs : WorkerLink(d)
    \/ \E d \in ParDocs : ParCollect(d)
    \/ ParChunkDone
    \/ ParRunAgain

(***************************************************************************)
(* reletedDataHelper.py: _chunk_list                                       *)
(* fetchCDL1.py: chunked          getEmailTemplate.py: chunks              *)
(***************************************************************************)
ChunkRoutines == {"_chunk_list", "chunked", "chunks"}
ChunkItems == {"a", "b"}

\* items[i:i + size]
ChunkAtMutant(items, i, size) == Slice(items, i, size + 1)
ChunkAt(items, i, size) == Slice(items, i, size)

ChunkIdle ==
    /\ c_fn = "_chunk_list" /\ c_items = <<>> /\ c_size = 1 /\ c_i = 0
    /\ c_chunks = <<>> /\ c_pc = "idle"

ChunkInit ==
    /\ c_fn \in ChunkRoutines
    /\ c_items \in SeqsUpTo(ChunkItems, MaxChunkItems)
    /\ c_size \in 1 .. MaxChunkSize
    /\ c_i = 0
    /\ c_chunks = <<>>
    /\ c_pc = "loop"

\* One pass of `for i in range(0, len(items), size): yield items[i:i + size]`.
ChunkYield ==
    /\ c_pc = "loop"
    /\ c_i < Len(c_items)
    /\ c_chunks' = Append(c_chunks, ChunkAt(c_items, c_i, c_size))
    /\ c_i' = c_i + c_size
    /\ UNCHANGED <<c_fn, c_items, c_size, c_pc>>
    /\ UNCHANGED notChunk

\* The range is exhausted: the generator ends.
ChunkStop ==
    /\ c_pc = "loop"
    /\ c_i >= Len(c_items)
    /\ c_pc' = "done"
    /\ UNCHANGED <<c_fn, c_items, c_size, c_i, c_chunks>>
    /\ UNCHANGED notChunk

ChunkNext ==
    \/ ChunkYield
    \/ ChunkStop

(***************************************************************************)
(* activity_import2.py: build_record                                       *)
(* EmailMessageMigration.py, getEmailTemplate.py: export_activity          *)
(* getEmailTemplate.py: sanitize_for_insert                                *)
(***************************************************************************)
BuildRoutines == {"build_record", "EmailMessageMigration.export_activity",
                  "getEmailTemplate.export_activity", "sanitize_for_insert"}

\* A record id: its key prefix and the org it belongs to.
SrcId(prefix) == <<prefix, "src">>
TgtId(prefix) == <<prefix, "tgt">>
IsSourceId(v) == v # None /\ v[2] = "src"
IsTargetId(v) == v # None /\ v[2] = "tgt"
\* The target record migrated from a source record.
Migrated(v) == TgtId(v[1])
\* A field value that is no id.
Plain(f) == <<f, "value">>

\* activity_config.py: TASK_FIELDS and EVENT_FIELDS, with Subject standing
\* for the fields that hold no id.
TASK_FIELDS == {"Id", "WhoId", "WhatId", "Subject", "Request__c", "OwnerId"}
EVENT_FIELDS == {"Id", "Subject", "WhatId", "WhoId", "OwnerId"}
ValidFields(object_name) == IF object_name = "Task" THEN TASK_FIELDS ELSE EVENT_FIELDS

\* The source activities import_activities meets: WhatId a Request (key
\* prefix a19), another object or none; import_activities passes over a row
\* that has no target id.
SourceActivities(object_name) ==
    {r \in IF object_name = "Task"
           THEN [Id : {SrcId("00T")}, WhatId : {None, SrcId("a19"), SrcId("0WO")},
                 WhoId : {None, SrcId("003")}, Subject : {None, Plain("Subject")},
                 Request__c : {None, SrcId("a19")}, OwnerId : {SrcId("005"), SrcId("00G")}]
           ELSE [Id : {SrcId("00U")}, WhatId : {None, SrcId("a19"), SrcId("0WO")},
                 WhoId : {None, SrcId("003")}, Subject : {None, Plain("Subject")},
                 OwnerId : {SrcId("005"), SrcId("00G")}] :
        r.WhatId # None \/ r.WhoId # None}

\* The row export_activity wrote for the activity: a target id for each
\* parent the activity has (a row with an unmatched parent goes to the
\* unmatched file), None standing for the empty cell.
MappingRowOf(rec) ==
    [Source_WhatId |-> rec.WhatId,
     Target_WhatId |-> IF rec.WhatId = None THEN None ELSE Migrated(rec.WhatId),
     Target_WhoId |-> IF rec.WhoId = None THEN None ELSE Migrated(rec.WhoId)]

\* build_owner_mapping: every owner has a target user or queue, the
\* integration user when none matches.
OwnerMappingsOf(rec) == [o \in {rec.OwnerId} |-> TgtId(rec.OwnerId[1])]

\* d without the keys ks: d.pop(k, None) for each k.
Without(d, ks) == [k \in DOMAIN d \ ks |-> d[k]]

\* activity_import2.py lines 61-102.
RequestField(record, object_name, mapping_row) ==
    IF /\ object_name = "Task"
       /\ mapping_row.Source_WhatId # None /\ mapping_row.Target_WhatId # None
       /\ StartsWith(mapping_row.Source_WhatId, "a19")
    THEN DictSet(record, "Request__c", mapping_row.Target_WhatId)
    ELSE record

LegacyIdField(record, source_record) == DictSet(record, "Card_Legacy_Id__c", source_record.Id)

build_record(source_record, mapping_row, valid_fields, object_name, owner_mappings, record_type) ==
    LET copied == [f \in {f \in (valid_fields \ {"Id"}) \cap DOMAIN source_record :
                             source_record[f] # None} |-> source_record[f]]
        legacy == IF "Id" \in valid_fields THEN LegacyIdField(copied, source_record) ELSE copied
        tgt_what == mapping_row.Target_WhatId
        tgt_who == mapping_row.Target_WhoId
        what == IF tgt_what # None THEN DictSet(legacy, "WhatId", tgt_what) ELSE legacy
        who == IF tgt_who # None THEN DictSet(what, "WhoId", tgt_who) ELSE what
        request == RequestField(who, object_name, mapping_row)
        src_owner == source_record.OwnerId
        owner == IF src_owner # None /\ src_owner \in DOMAIN owner_mappings
                 THEN DictSet(request, "OwnerId", owner_mappings[src_owner])
                 ELSE request
    IN  IF record_type THEN DictSet(owner, "RecordTypeId", TgtId("012")) ELSE owner

\* The EmailMessage records after fetch_target_ids, Subject standing for the
\* fields that hold no id: a target id is looked up only for an id the
\* record has.
EmRecords(fn) ==
    LET base == [Id : {SrcId("02s")}, ActivityId : {None, SrcId("00T")},
                 RelatedTo : {Plain("RelatedTo")}, RelatedToId : {SrcId("a0I")},
                 FromId : {None, SrcId("005")}, EmailTemplateId : {None, SrcId("00X")},
                 AttachmentIds : {Plain("AttachmentIds")}, Subject : {Plain("Subject")},
                 Target_FromId : {None, TgtId("005")},
                 Target_RelatedToId : {None, TgtId("a0I")},
                 Target_EmailTemplateId : {None, TgtId("00X")}]
        feasible == {r \in base : /\ r.FromId = None => r.Target_FromId = None
                                  /\ r.EmailTemplateId = None => r.Target_EmailTemplateId = None}
    IN  IF fn = "EmailMessageMigration.export_activity"
        THEN {DictSet(r, "ValidatedFromAddress", Plain("ValidatedFromAddress")) : r \in feasible}
        ELSE feasible

\* EmailMessageMigration.py lines 206-227: the reason to skip the record
\* ("" for none).
EmSkip(fn, rec) ==
    IF rec.Target_RelatedToId = None THEN "No mapped parent"
    ELSE IF /\ fn = "EmailMessageMigration.export_activity"
            /\ rec.EmailTemplateId # None /\ rec.Target_EmailTemplateId = None
         THEN "Unmapped EmailTemplate"
         ELSE ""

\* EmailMessageMigration.py lines 215-225.
EmInsertData(rec) ==
    LET a == DictSet(rec, "FromId", rec.Target_FromId)
        b == DictSet(a, "RelatedToId", rec.Target_RelatedToId)
        c == DictSet(b, "EmailTemplateId", rec.Target_EmailTemplateId)
        d == DictSet(c, "status", Plain("status"))
        e == DictSet(d, "Card_Legacy_Id__c", rec.Id)
    IN  Without(e, {"Id", "ActivityId", "RelatedTo", "Target_FromId", "Target_RelatedToId",
                    "Target_EmailTemplateId", "ValidatedFromAddress"})

\* getEmailTemplate.py lines 46-49
READ_ONLY_FIELDS ==
    {"Id", "CreatedDate", "CreatedById", "LastModifiedDate", "LastModifiedById",
     "SystemModstamp", "IsDeleted", "OwnerId"}

\* The helper keys sanitize_for_insert pops (lines 177-182).
HelperKeysMutant == {"Target_FromId", "Target_RelatedToId", "Target_EmailTemplateId", "RelatedTo"}
HelperKeys ==
    {"Target_FromId", "Target_RelatedToId", "Target_EmailTemplateId", "RelatedTo",
     "AttachmentIds"}

\* getEmailTemplate.py lines 173-184: the dict returned, and the argument
\* after the call (the comprehension builds a new dict).
sanitize_for_insert(record) == Without(Without(record, READ_ONLY_FIELDS), HelperKeys)
SanitizedArgument(record) == record

\* getEmailTemplate.py lines 216-222.
EtInsertObj(rec) ==
    LET a == DictSet(rec, "FromId", rec.Target_FromId)
        b == DictSet(a, "RelatedToId", rec.Target_RelatedToId)
        c == IF rec.Target_EmailTemplateId # None
             THEN DictSet(b, "EmailTemplateId", rec.Target_EmailTemplateId) ELSE b
    IN  sanitize_for_insert(c)

\* The records sanitize_for_insert is tried on: any few of these fields.
SanitizeFields ==
    {"Id", "OwnerId", "CreatedDate", "Target_FromId", "RelatedTo", "AttachmentIds",
     "Subject", "FromId"}

BuildIdle ==
    /\ b_fn = "build_record" /\ b_object = "Task" /\ b_input = EmptyDict
    /\ b_record = EmptyDict /\ b_record_type = FALSE /\ b_payload = EmptyDict
    /\ b_submitted = <<>> /\ b_pc = "idle"

BuildInit ==
    /\ b_fn \in BuildRoutines
    /\ b_object \in (IF b_fn = "build_record" THEN {"Task", "Event"} ELSE {"EmailMessage"})
    /\ b_record_type \in (IF b_fn = "build_record" THEN BOOLEAN ELSE {FALSE})
    /\ b_input \in
         CASE b_fn = "build_record" -> SourceActivities(b_object)
           [] b_fn = "sanitize_for_insert" ->
                UNION {[D -> {Plain("a"), Plain("b")}] : D \in SUBSET SanitizeFields}
           [] OTHER -> EmRecords(b_fn)
    /\ b_record = b_input
    /\ b_payload = EmptyDict
    /\ b_submitted = <<>>
    /\ b_pc = "build"

\* activity_import2.py line 200: record = build_record(...)
BuildRecord ==
    /\ b_fn = "build_record" /\ b_pc = "build"
    /\ b_payload' = build_record(b_record, MappingRowOf(b_record), ValidFields(b_object),
                                 b_object, OwnerMappingsOf(b_record), b_record_type)
    /\ b_pc' = "built"
    /\ UNCHANGED <<b_fn, b_object, b_input, b_record, b_record_type, b_submitted>>
    /\ UNCHANGED notBuild

\* The loop body of export_activity for one record: skipped, or prepared.
EmPrepare ==
    /\ b_fn \in {"EmailMessageMigration.export_activity", "getEmailTemplate.export_activity"}
    /\ b_pc = "build"
    /\ IF EmSkip(b_fn, b_record) # ""
       THEN /\ b_pc' = "skipped"
            /\ UNCHANGED b_payload
       ELSE /\ b_payload' = (IF b_fn = "EmailMessageMigration.export_activity"
                             THEN EmInsertData(b_record) ELSE EtInsertObj(b_record))
            /\ b_pc' = "built"
    /\ UNCHANGED <<b_fn, b_object, b_input, b_record, b_record_type, b_submitted>>
    /\ UNCHANGED notBuild

\* A call of sanitize_for_insert on its own.
Sanitize ==
    /\ b_fn = "sanitize_for_insert" /\ b_pc = "build"
    /\ b_payload' = sanitize_for_insert(b_record)
    /\ b_record' = SanitizedArgument(b_record)
    /\ b_pc' = "built"
    /\ UNCHANGED <<b_fn, b_object, b_input, b_record_type, b_submitted>>
    /\ UNCHANGED notBuild

\* The payload is sent to the target in a bulk insert.
PayloadSubmit ==
    /\ b_fn # "sanitize_for_insert" /\ b_pc = "built"
    /\ b_submitted' = Append(b_submitted, b_payload)
    /\ b_pc' = "submitted"
    /\ UNCHANGED <<b_fn, b_object, b_input, b_record, b_record_type, b_payload>>
    /\ UNCHANGED notBuild

BuildNext ==
    \/ BuildRecord
    \/ EmPrepare
    \/ Sanitize
    \/ PayloadSubmit

(***************************************************************************)
(* mappings.py, FeedItemMigration.py: related_recordid_mapping             *)
(***************************************************************************)
ImgRoutines == {"mappings", "FeedItemMigration"}

\* A body is a sequence of pieces: text, an <img> tag whose src is
\* sfdc://<document id>, or an <img> tag with another src.
ContentDocs == {"069A", "069B"}
TextPiece == <<"text", "hello">>
SfdcImg(doc) == <<"img", doc>>
OtherImg == <<"img", "https">>
Pieces == {TextPiece, OtherImg} \cup {SfdcImg(d) : d \in ContentDocs}
Bodies == UNION {[1 .. n -> Pieces] : n \in 0 .. MaxBodyLen}

IsImg(piece) == piece[1] = "img"
IsSfdcImg(piece) == piece[1] = "img" /\ piece[2] \in ContentDocs

\* re.findall(r'<img[^>]+src="sfdc://([^"]+)"', body): the document ids,
\* in the order of the tags.
RECURSIVE FindSfdc(_)
FindSfdc(body) ==
    IF body = <<>> THEN <<>>
    ELSE (IF IsSfdcImg(Head(body)) THEN <<Head(body)[2]>> ELSE <<>>) \o FindSfdc(Tail(body))

\* re.sub(r'<img[^>]*>(?:</img>)?', '', body): every <img> tag removed.
RECURSIVE RemoveImgs(_)
RemoveImgs(body) ==
    IF body = <<>> THEN <<>>
    ELSE (IF IsImg(Head(body)) THEN <<>> ELSE <<Head(body)>>) \o RemoveImgs(Tail(body))

\* The latest ContentVersion of a document.
LatestVersion(doc) == <<"068", doc>>

\* The field that holds the body.
BodyField(fn, type) == IF fn = "mappings" /\ type = "Comment" THEN "CommentBody" ELSE "Body"

\* Step 1: the documents referenced in the batch.
DocIdsOf(records, field) ==
    UNION {{FindSfdc(records[i][field])[k] : k \in DOMAIN FindSfdc(records[i][field])} :
             i \in DOMAIN records}

\* Step 2: content_map, the latest version of each referenced document
\* the source has one for.
ContentMap(doc_ids, latest) == [d \in doc_ids \cap latest |-> LatestVersion(d)]

\* fetch_createdByIds: every creator has a target user, the integration
\* user when none matches; createdBy_mappings.get(None) is None.
CreatedByMapped(rec) ==
    DictSet(rec, "CreatedById",
            IF rec.CreatedById = None THEN None ELSE TgtId(rec.CreatedById[1]))

\* mappings.py lines 250-270: one record in step 3.
MappingsStep3(rec, field, content_map) ==
    LET body == rec[field]
        stripped == DictSet(rec, field, RemoveImgs(body))
        matches == FindSfdc(body)
    IN  IF matches # <<>> /\ matches[1] \in DOMAIN content_map
        THEN DictSet(stripped, "RelatedRecordId", content_map[matches[1]])
        ELSE stripped

\* FeedItemMigration.py lines 89-97: one record in step 3.
FeedItemStep3(rec, field, content_map) ==
    LET body == rec[field]
        matches == FindSfdc(body)
    IN  IF matches # <<>> /\ matches[1] \in DOMAIN content_map
        THEN DictSet(DictSet(rec, "RelatedRecordId", content_map[matches[1]]),
                     field, RemoveImgs(body))
        ELSE rec

\* The records of a batch as they were queried from the source.
ImgRecords(field) ==
    {DictSet([CreatedById |-> SrcId("005"), RelatedRecordId |-> None], field, b) :
        b \in Bodies}

ImgIdle ==
    /\ m_fn = "mappings" /\ object_type = "Item" /\ m_input = <<>> /\ m_records = <<>>
    /\ m_latest = {} /\ m_pc = "idle"

ImgInit ==
    /\ m_fn \in ImgRoutines
    /\ object_type \in (IF m_fn = "mappings" THEN {"Item", "Comment"} ELSE {"Item"})
    /\ m_input \in [1 .. 2 -> ImgRecords(BodyField(m_fn, object_type))]
    /\ m_records = m_input
    /\ m_latest \in SUBSET ContentDocs
    /\ m_pc = "call"

\* mappings.py lines 214-271
RelatedRecordidMapping ==
    /\ m_fn = "mappings" /\ m_pc = "call"
    /\ LET field == BodyField(m_fn, object_type)
           created == [i \in DOMAIN m_records |-> CreatedByMapped(m_records[i])]
           doc_ids == DocIdsOf(created, field)
           content_map == ContentMap(doc_ids, m_latest)
       IN  IF doc_ids = {}
           THEN m_records' = created /\ m_pc' = "returned"
           ELSE \/ /\ m_records' = [i \in DOMAIN created |->
                                       MappingsStep3(created[i], field, content_map)]
                   /\ m_pc' = "returned"
                \/ /\ m_records' = created          \* the version query raises
                   /\ m_pc' = "raised"
    /\ UNCHANGED <<m_fn, object_type, m_input, m_latest>>
    /\ UNCHANGED notImg

\* FeedItemMigration.py lines 59-98
FeedItemRelatedRecordidMapping ==
    /\ m_fn = "FeedItemMigration" /\ m_pc = "call"
    /\ LET field == BodyField(m_fn, object_type)
           doc_ids == DocIdsOf(m_records, field)
           content_map == ContentMap(doc_ids, m_latest)
       IN  IF doc_ids = {}
           THEN UNCHANGED m_records /\ m_pc' = "returned"
           ELSE \/ /\ m_records' = [i \in DOMAIN m_records |->
                                       FeedItemStep3(m_records[i], field, content_map)]
                   /\ m_pc' = "returned"
                \/ /\ UNCHANGED m_records           \* the version query raises
                   /\ m_pc' = "raised"
    /\ UNCHANGED <<m_fn, object_type, m_input, m_latest>>
    /\ UNCHANGED notImg

ImgNext ==
    \/ RelatedRecordidMapping
    \/ FeedItemRelatedRecordidMapping

(***************************************************************************)
(* fetchCDL1.py: main, fetch_cdls_for_parent_chunk                         *)
(***************************************************************************)
\* OBJECT_CONDITIONS, cut down to its first two objects.
CdlObjects == <<"Account", "Contact">>
CdlAccounts == [n \in 1 .. MaxCdlAccounts |-> <<"001", n>>]
CdlContacts == <<<<"003", 1>>>>
CdlUsers == {<<"005", 1>>}
CdlDocs == {<<"069", 1>>, <<"069", 2>>}

\* fetch_source_parent_ids: the parents of an object that meet its condition.
ParentIdsOf(obj) == IF obj = "Account" THEN CdlAccounts ELSE CdlContacts

\* chunked(parent_ids, CHUNK_SIZE)
RECURSIVE Chunked(_, _)
Chunked(ids, n) ==
    IF ids = <<>> THEN <<>> ELSE <<Slice(ids, 0, n)>> \o Chunked(Slice(ids, n, Len(ids)), n)

\* LinkedEntity.Type of a link.
LinkedEntityType(link) ==
    IF link[2][1] = "005" THEN "User" ELSE IF link[2][1] = "001" THEN "Account" ELSE "Contact"

\* fetch_cdls_for_parent_chunk (lines 117-146): the links of the chunk's
\* parents, then every link of the documents those links name.
FetchCdlsForParentChunk(links, parent_ids_chunk) ==
    LET parent_links == {l \in links : l[2] \in Range(parent_ids_chunk)}
        content_doc_ids == {l[1] : l \in parent_links}
    IN  {l \in links : l[1] \in content_doc_ids}

\* Lines 247-258 and 270-283: the row of a link and the file it goes to.
CdlRow(link, tgt, obj) ==
    [file |-> IF tgt # None THEN "mapping" ELSE "unmatched",
     Source_ContentDocumentLink_Id |-> link, Target_Parent_Id |-> tgt, Parent_Object |-> obj]

\* writer.writerow(row): one more copy of the row.
RECURSIVE WriteRows(_, _)
WriteRows(out, rows) ==
    IF rows = {} THEN out
    ELSE LET r == CHOOSE x \in rows : TRUE
         IN  WriteRows(out \cup {<<r, 1 + Cardinality({w \in out : w[1] = r})>>}, rows \ {r})

\* Lines 226-283: the rows one chunk writes.  A link to a User goes to
\* user_links, a link to a parent of the chunk to parent_links; the other
\* links are passed over.
ChunkRows(cdls, parent_chunk, obj, target_map, user_target_map) ==
    LET user_links == {l \in cdls : LinkedEntityType(l) = "User"}
        parent_links == {l \in cdls \ user_links : l[2] \in Range(parent_chunk)}
    IN  {CdlRow(l, IF l[2] \in target_map THEN <<"tgt", l[2]>> ELSE None, obj) :
            l \in parent_links}
        \cup {CdlRow(l, IF l[2] \in user_target_map THEN <<"tgt", l[2]>> ELSE None, "User") :
                l \in user_links}

CdlIdle ==
    /\ l_links = {} /\ l_target = {} /\ l_obj = 0 /\ l_chunks = <<>> /\ l_out = {}
    /\ l_pc = "idle"

CdlInit ==
    /\ l_links \in SUBSET (CdlDocs \X (Range(CdlAccounts) \cup Range(CdlContacts) \cup CdlUsers))
    /\ l_target \in SUBSET (Range(CdlAccounts) \cup CdlUsers)
    /\ l_obj = 0
    /\ l_chunks = <<>>
    /\ l_out = {}
    /\ l_pc = "object"

\* Lines 208-216: the next object of OBJECT_CONDITIONS and its parent ids;
\* fetch_source_parent_ids has no handler, its exception ends main.
CdlNextObject ==
    /\ l_pc = "object"
    /\ IF l_obj = Len(CdlObjects)
       THEN /\ l_pc' = "done"
            /\ UNCHANGED <<l_obj, l_chunks>>
       ELSE \/ /\ l_obj' = l_obj + 1
               /\ l_chunks' = Chunked(ParentIdsOf(CdlObjects[l_obj + 1]), CdlChunkSize)
               /\ l_pc' = "chunk"
            \/ /\ l_pc' = "raised"
               /\ UNCHANGED <<l_obj, l_chunks>>
    /\ UNCHANGED <<l_links, l_target, l_out>>
    /\ UNCHANGED notCdl

\* Lines 218-286: one chunk.  A failed fetch of the links skips the chunk;
\* a failed target query leaves its map empty.
CdlChunk ==
    /\ l_pc = "chunk"
    /\ LET parent_chunk == Head(l_chunks)
           obj == CdlObjects[l_obj]
           cdls == FetchCdlsForParentChunk(l_links, parent_chunk)
       IN  \/ \E target_ok \in BOOLEAN : \E user_ok \in BOOLEAN :
                l_out' = WriteRows(l_out,
                            ChunkRows(cdls, parent_chunk, obj,
                                      IF target_ok THEN l_target ELSE {},
                                      IF user_ok THEN l_target ELSE {}))
           \/ UNCHANGED l_out                   \* fetch_cdls_for_parent_chunk raises
    /\ l_chunks' = Tail(l_chunks)
    /\ l_pc' = (IF Tail(l_chunks) = <<>> THEN "object" ELSE "chunk")
    /\ UNCHANGED <<l_links, l_target, l_obj>>
    /\ UNCHANGED notCdl

CdlNext ==
    \/ CdlNextObject
    \/ CdlChunk

(***************************************************************************)
(* dataMasking.py: data_masking_batch                                      *)
(***************************************************************************)
\* A field value is None or a text, written as the sequence of its pieces.
Truthy(v) == v # None /\ v # <<>>
EndsWithInvalid(v) == Len(v) > 0 /\ v[Len(v)] = ".invalid"

mask_phone(phone) == IF Truthy(phone) THEN <<"0000000000">> ELSE phone
mask_email(email) ==
    IF Truthy(email) /\ ~EndsWithInvalid(email) THEN Append(email, ".invalid") ELSE email

\* FIELDS['Contact'], cut down to one phone and one email field.
MaskPhones == {None, <<"555">>}
MaskEmails == {None, <<"a@x">>, <<"a@x", ".invalid">>}

\* The records the query of lines 89-95 can return: distinct Ids, every
\* selected field present, one of the filterable fields not NULL.
MaskRows == {r \in [Phone : MaskPhones, Email : MaskEmails] : r.Phone # None \/ r.Email # None}
MaskRecords ==
    UNION {{[i \in 1 .. n |-> [Id |-> i, Phone |-> f[i].Phone, Email |-> f[i].Email]] :
                f \in [1 .. n -> MaskRows]} : n \in 0 .. MaxMaskRecords}

\* math.ceil(total_records / batch_size)
MaskTotalBatches(records) == (Len(records) + MaskBatchSize - 1) \div MaskBatchSize

\* Lines 105-111: the update payload of a record.
MaskedUpdate(rec) ==
    [Id |-> rec.Id, Phone |-> mask_phone(rec.Phone), Email |-> mask_email(rec.Email)]

\* Lines 118-124: temp_failures, one entry per result without success.
TempFailures(failed_records, bad) ==
    LET at == SelectAt([i \in DOMAIN failed_records |-> i], bad)
    IN  [k \in DOMAIN at |-> [Id |-> failed_records[at[k]].Id, errors |-> <<"error">>]]

MaskIdle ==
    /\ dm_records = <<>> /\ dm_batch = 0 /\ dm_updates = <<>> /\ dm_failed = <<>>
    /\ dm_retry = 0 /\ dm_rounds = <<>> /\ dm_csv = <<>> /\ dm_pc = "idle"

MaskInit ==
    /\ dm_records \in MaskRecords
    /\ dm_batch = 0 /\ dm_updates = <<>> /\ dm_failed = <<>>
    /\ dm_retry = 0 /\ dm_rounds = <<>> /\ dm_csv = <<>> /\ dm_pc = "query"

\* Lines 93-98: query_all returns the records or raises.
MaskQuery ==
    /\ dm_pc = "query"
    /\ dm_pc' \in {"batch", "raised"}
    /\ UNCHANGED <<dm_records, dm_batch, dm_updates, dm_failed, dm_retry, dm_rounds, dm_csv>>
    /\ UNCHANGED notMask

\* Lines 100-115: the next batch and its updates.
MaskBatchStart ==
    /\ dm_pc = "batch"
    /\ IF dm_batch = MaskTotalBatches(dm_records)
       THEN /\ dm_pc' = "done"
            /\ UNCHANGED <<dm_updates, dm_failed, dm_retry, dm_rounds>>
       ELSE LET batch == Slice(dm_records, dm_batch * MaskBatchSize, MaskBatchSize)
                updates == [i \in DOMAIN batch |-> MaskedUpdate(batch[i])]
            IN  /\ dm_updates' = updates
                /\ dm_failed' = updates
                /\ dm_retry' = 0
                /\ dm_rounds' = <<>>
                /\ dm_pc' = "update"
    /\ UNCHANGED <<dm_records, dm_batch, dm_csv>>
    /\ UNCHANGED notMask

\* Lines 116-130: one pass of the while loop.  The bulk update answers one
\* result per record sent, or raises.
MaskUpdateRound ==
    /\ dm_pc = "update"
    /\ dm_retry < MaskMaxRetries /\ dm_failed # <<>>
    /\ \/ \E bad \in SUBSET DOMAIN dm_failed :
            LET temp_failures == TempFailures(dm_failed, bad)
            IN  /\ dm_rounds' = Append(dm_rounds, [sent |-> dm_failed, bad |-> bad])
                /\ dm_failed' = temp_failures
                /\ dm_retry' = (IF temp_failures # <<>> THEN dm_retry + 1 ELSE dm_retry)
                /\ dm_pc' = (IF temp_failures # <<>> /\ dm_retry + 1 < MaskMaxRetries
                             THEN "update" ELSE "log")
       \/ /\ dm_pc' = "raised"
          /\ dm_rounds' = Append(dm_rounds, [sent |-> dm_failed, bad |-> DOMAIN dm_failed])
          /\ UNCHANGED <<dm_failed, dm_retry>>
    /\ UNCHANGED <<dm_records, dm_batch, dm_updates, dm_csv>>
    /\ UNCHANGED notMask

\* Lines 132-147: the permanently failed records go to FAILED_CSV.
MaskBatchEnd ==
    /\ dm_pc = "log"
    /\ dm_csv' = dm_csv \o [i \in DOMAIN dm_failed |-> dm_failed[i].Id]
    /\ dm_batch' = dm_batch + 1
    /\ dm_pc' = "batch"
    /\ UNCHANGED <<dm_records, dm_updates, dm_failed, dm_retry, dm_rounds>>
    /\ UNCHANGED notMask

MaskNext ==
    \/ MaskQuery
    \/ MaskBatchStart
    \/ MaskUpdateRound
    \/ MaskBatchEnd

(***************************************************************************)
(* Specifications.                                                         *)
(***************************************************************************)
InitRetry == RetryInit /\ FtmIdle /\ OwnIdle /\ ExpIdle /\ ImpIdle /\ RelIdle /\ GIdle /\ MainIdle /\ QaIdle /\ ParIdle /\ ChunkIdle /\ BuildIdle /\ ImgIdle /\ CdlIdle /\ MaskIdle
SpecRetry == InitRetry /\ [][RetryNext]_vars

InitMappings == FtmInit /\ RetryIdle /\ OwnIdle /\ ExpIdle /\ ImpIdle /\ RelIdle /\ GIdle /\ MainIdle /\ QaIdle /\ ParIdle /\ ChunkIdle /\ BuildIdle /\ ImgIdle /\ CdlIdle /\ MaskIdle
SpecMappings == InitMappings /\ [][FtmNext]_vars

InitOwners == OwnInit /\ RetryIdle /\ FtmIdle /\ ExpIdle /\ ImpIdle /\ RelIdle /\ GIdle /\ MainIdle /\ QaIdle /\ ParIdle /\ ChunkIdle /\ BuildIdle /\ ImgIdle /\ CdlIdle /\ MaskIdle
SpecOwners == InitOwners /\ [][OwnNext]_vars

InitExport == ExpInit /\ RetryIdle /\ FtmIdle /\ OwnIdle /\ ImpIdle /\ RelIdle /\ GIdle /\ MainIdle /\ QaIdle /\ ParIdle /\ ChunkIdle /\ BuildIdle /\ ImgIdle /\ CdlIdle /\ MaskIdle
SpecExport == InitExport /\ [][ExpNext]_vars

InitImport == ImpInit /\ RetryIdle /\ FtmIdle /\ OwnIdle /\ ExpIdle /\ RelIdle /\ GIdle /\ MainIdle /\ QaIdle /\ ParIdle /\ ChunkIdle /\ BuildIdle /\ ImgIdle /\ CdlIdle /\ MaskIdle
SpecImport == InitImport /\ [][ImpNext]_vars

InitRelated == RelInit /\ RetryIdle /\ FtmIdle /\ OwnIdle /\ ExpIdle /\ ImpIdle /\ GIdle /\ MainIdle /\ QaIdle /\ ParIdle /\ ChunkIdle /\ BuildIdle /\ ImgIdle /\ CdlIdle /\ MaskIdle
SpecRelated == InitRelated /\ [][RelNext]_vars

InitEligible ==
    GInit /\ RetryIdle /\ FtmIdle /\ OwnIdle /\ ExpIdle /\ ImpIdle /\ RelIdle /\ MainIdle /\ QaIdle /\ ParIdle /\ ChunkIdle /\ BuildIdle /\ ImgIdle /\ CdlIdle /\ MaskIdle
SpecEligible == InitEligible /\ [][GNext]_vars

InitMain ==
    MainInit /\ RetryIdle /\ FtmIdle /\ OwnIdle /\ ExpIdle /\ ImpIdle /\ GIdle /\ QaIdle /\ ParIdle /\ ChunkIdle /\ BuildIdle /\ ImgIdle /\ CdlIdle /\ MaskIdle
SpecMain == InitMain /\ [][MainNext]_vars

InitQueryAll ==
    QaInit /\ RetryIdle /\ FtmIdle /\ OwnIdle /\ ExpIdle /\ ImpIdle /\ RelIdle /\ GIdle /\ MainIdle /\ ParIdle /\ ChunkIdle /\ BuildIdle /\ ImgIdle /\ CdlIdle /\ MaskIdle

InitChunks ==
    ChunkInit /\ RetryIdle /\ FtmIdle /\ OwnIdle /\ ExpIdle /\ ImpIdle /\ RelIdle /\ GIdle /\ MainIdle /\ QaIdle /\ ParIdle /\ BuildIdle /\ ImgIdle /\ CdlIdle /\ MaskIdle
SpecChunks == InitChunks /\ [][ChunkNext]_vars

InitMask ==
    MaskInit /\ RetryIdle /\ FtmIdle /\ OwnIdle /\ ExpIdle /\ ImpIdle /\ RelIdle /\ GIdle /\ MainIdle /\ QaIdle /\ ParIdle /\ ChunkIdle /\ BuildIdle /\ ImgIdle /\ CdlIdle
SpecMask == InitMask /\ [][MaskNext]_vars

InitCdl ==
    CdlInit /\ RetryIdle /\ FtmIdle /\ OwnIdle /\ ExpIdle /\ ImpIdle /\ RelIdle /\ GIdle /\ MainIdle /\ QaIdle /\ ParIdle /\ ChunkIdle /\ BuildIdle /\ ImgIdle /\ MaskIdle
SpecCdl == InitCdl /\ [][CdlNext]_vars

InitImg ==
    ImgInit /\ RetryIdle /\ FtmIdle /\ OwnIdle /\ ExpIdle /\ ImpIdle /\ RelIdle /\ GIdle /\ MainIdle /\ QaIdle /\ ParIdle /\ ChunkIdle /\ BuildIdle /\ CdlIdle /\ MaskIdle
SpecImg == InitImg /\ [][ImgNext]_vars

InitBuild ==
    BuildInit /\ RetryIdle /\ FtmIdle /\ OwnIdle /\ ExpIdle /\ ImpIdle /\ RelIdle /\ GIdle /\ MainIdle /\ QaIdle /\ ParIdle /\ ChunkIdle /\ ImgIdle /\ CdlIdle /\ MaskIdle
SpecBuild == InitBuild /\ [][BuildNext]_vars

InitResume ==
    ParInit /\ p_fn = "MigrateCDlPart2" /\ RetryIdle /\ FtmIdle /\ OwnIdle /\ ExpIdle /\ ImpIdle /\ RelIdle /\ GIdle /\ MainIdle /\ QaIdle /\ ChunkIdle /\ BuildIdle /\ ImgIdle /\ CdlIdle /\ MaskIdle
SpecResume == InitResume /\ [][ResumeNext]_vars

InitParallel ==
    ParInit /\ RetryIdle /\ FtmIdle /\ OwnIdle /\ ExpIdle /\ ImpIdle /\ RelIdle /\ GIdle /\ MainIdle /\ QaIdle /\ ChunkIdle /\ BuildIdle /\ ImgIdle /\ CdlIdle /\ MaskIdle
SpecParallel == InitParallel /\ [][ParNext]_vars
SpecQueryAll == InitQueryAll /\ [][QaNext]_vars

\* The retry loops of the repository, one of them running: each remote call
\* answers or raises.
InitLoops ==
    \/ InitRetry
    \/ InitQueryAll
    \/ InitImport
    \/ (InitEligible /\ g_fn = "export_activity")

LoopsNext ==
    \/ RetryIteration
    \/ DirectCallEnds
    \/ SafeQueryEnds
    \/ SafeBulkInsertEnds
    \/ QueryAllIteration
    \/ ImportPrepare
    \/ ImportInsertRound
    \/ ImportLog
    \/ EmFetch
    \/ EmInsertAttempt

SpecLoops == InitLoops /\ [][LoopsNext]_vars

(***************************************************************************)
(* Claims.                                                                 *)
(***************************************************************************)
(***************************************************************************)
(* C1.  retry_salesforce_operation (and safe_query), called with an        *)
(* operation that raises on every invocation, invokes it exactly           *)
(* max_retries+1 times and then returns a failure result carrying the last *)
(* exception's message; the exception never propagates to the caller.      *)
(***************************************************************************)
AlwaysFails == r_failFirst > max_retries

C2_ReturnsAfterKPlusOne ==
    /\ (RetryEnded /\ r_failFirst <= max_retries)
          => (r_pc = "returned" /\ r_result = r_value /\ r_calls = r_failFirst + 1)
    /\ r_calls <= r_failFirst + 1

C2_Witness ==
    /\ RetryEnded /\ r_via = "direct" /\ r_failFirst = 2 /\ max_retries = 2
    /\ r_calls = 3 /\ r_result = r_value

(***************************************************************************)
(* C3.  During one process_file run the binary of a source ContentDocument *)
(* is uploaded to the target (an accepted ContentVersion.create) at most   *)
(* once, over all the migrate_files calls on the successive chunks and     *)
(* any pattern of remote failures.                                         *)
(***************************************************************************)
Uploads(doc) ==
    {p \in DOMAIN t_requests :
        /\ t_requests[p].object = "ContentVersion"
        /\ t_requests[p].accepted
        /\ t_requests[p].src = doc}

C3_UploadedAtMostOnce == \A doc \in Docs : Cardinality(Uploads(doc)) <= 1

(***************************************************************************)
(* C4.  No create request sent to the target carries a missing parent      *)
(* reference, and (as the claim states it) a record whose parent has no    *)
(* entry in activity_map is never submitted.                               *)
(***************************************************************************)
\* The source record a request's parent reference stands for: for a
\* FeedComment the activity of its FeedItem, else the record's parent.
ParentActivity(req) ==
    IF req.object = "FeedComment" THEN s_feeditems[req.src_parent] ELSE req.src_parent

C4_ParentInActivityMap ==
    \A p \in DOMAIN t_requests :
        /\ t_requests[p].parent # None
        /\ ParentActivity(t_requests[p]) \in DOMAIN activity_map

(***************************************************************************)
(* C4, amended.  No create request carries a missing parent reference, and *)
(* the reference sent is the one the parent resolves to: through           *)
(* activity_map for an activity parent, through the target User mapping    *)
(* for a User-linked ContentDocumentLink, and for a FeedComment the id of  *)
(* the FeedItem created from its source FeedItem.                          *)
(***************************************************************************)
ResolvedParent(p) ==
    LET req == t_requests[p]
        by_activity == /\ req.src_parent \in DOMAIN activity_map
                       /\ req.parent = activity_map[req.src_parent]
    IN  IF req.object = "FeedComment"
        THEN \E q \in 1 .. (p - 1) :
                /\ t_requests[q].object = "FeedItem"
                /\ t_requests[q].src = req.src_parent
                /\ t_requests[q].accepted
                /\ t_requests[q].id = req.parent
        ELSE IF req.object = "ContentDocumentLink"
        THEN \/ by_activity
             \/ /\ EntityType(req.src_parent) = "User"
                /\ req.src_parent \in t_users
                /\ req.parent = FileTargetUser(req.src_parent)
        ELSE by_activity

C4_NoUnresolvedParentSubmitted ==
    \A p \in DOMAIN t_requests : t_requests[p].parent # None /\ ResolvedParent(p)

\* A User link has been submitted while the link of a Task without target
\* activity was refused.
C4_Witness ==
    /\ rel_fn = "process_file"
    /\ \E p \in DOMAIN t_requests :
          /\ t_requests[p].object = "ContentDocumentLink"
          /\ t_requests[p].src_parent = FileUser
    /\ \E i \in DOMAIN results_out : results_out[i].Error = "No target activity mapping"

(***************************************************************************)
(* C5.  migrate_attachments and migrate_feed: every source record a query  *)
(* returned (Attachment, FeedItem, FeedComment) never has two outcome      *)
(* records in results_out, and has exactly one when the call returns.      *)
(***************************************************************************)
OutcomesOf(rec) == {i \in DOMAIN results_out : results_out[i].SourceRecordId = rec}

C5_ExactlyOneOutcome ==
    \A rec \in fetched :
        /\ Cardinality(OutcomesOf(rec)) <= 1
        /\ rel_pc = "done" => Cardinality(OutcomesOf(rec)) = 1

\* migrate_feed has returned after a bulk-to-REST fallback, a parent without
\* mapping, a failed record and a migrated comment.
C5_Witness ==
    /\ rel_fn = "migrate_feed" /\ rel_pc = "done"
    /\ \E p \in DOMAIN t_requests : t_requests[p].api = "rest"
    /\ \E i \in DOMAIN results_out : results_out[i].Error = "No target parent mapping"
    /\ \E i \in DOMAIN results_out :
          results_out[i].Type = "FeedComment" /\ results_out[i].Status = "Success"

(***************************************************************************)
(* C6.  import_activities writes exactly one log row per row of the        *)
(* mapping CSV, and the Target_Activity_Id and Success value logged for a  *)
(* Source_Activity_Id are the result of inserting the record built from    *)
(* that same source activity (also when some mapping rows were skipped     *)
(* before the insert or some records were retried).                        *)
(***************************************************************************)
LogRowsFor(source_id) ==
    {i \in DOMAIN log_csv : log_csv[i].Source_Activity_Id = source_id}

C6_OneTrueLogRowPerMappingRow ==
    (i_pc = "done" /\ mappings # <<>>) =>
        /\ \A r \in DOMAIN mappings :
               Cardinality(LogRowsFor(mappings[r].Source_Activity_Id)) = 1
        /\ \A i \in DOMAIN log_csv :
               IF log_csv[i].Success
               THEN <<log_csv[i].Target_Activity_Id, log_csv[i].Source_Activity_Id>>
                        \in i_created
               ELSE \A c \in i_created : c[2] # log_csv[i].Source_Activity_Id

(***************************************************************************)
(* C7.  fetch_target_mappings, assuming every target query returns only    *)
(* records whose legacy id is in the queried chunk: every key of the       *)
(* returned map is a member of ids; an id with no matching target record   *)
(* is not a key of the map (no None or empty value is stored for it) and   *)
(* causes no exception.                                                    *)
(***************************************************************************)
HasTargetRecord(id) == \E t \in DOMAIN f_target : f_target[t] = id

C7_OnlyGivenAndMatchedIds ==
    f_fn = "fetch_target_mappings" =>
        /\ f_pc # "raised"
        /\ DOMAIN mapping \subseteq Range(parent_list)
        /\ \A id \in Range(parent_list) :
               ~HasTargetRecord(id) => id \notin DOMAIN mapping
        /\ \A k \in DOMAIN mapping :
               /\ mapping[k] \in DOMAIN f_target
               /\ f_target[mapping[k]] = k

C7_Witness ==
    /\ f_fn = "fetch_target_mappings" /\ f_pc = "returned"
    /\ Len(f_queries) = 2
    /\ \E id \in Range(parent_list) : ~HasTargetRecord(id)
    /\ \E id \in Range(parent_list) : id \in DOMAIN mapping

(***************************************************************************)
(* C8.  build_owner_mapping returns a map defined on every id of ownerIds: *)
(* a user id (prefix 005) maps to the target User whose legacy id equals   *)
(* it, a queue id (prefix 00G) maps to the target Queue with the same      *)
(* DeveloperName, and every id resolved by neither path maps to the        *)
(* integration-user id; fetch_createdByIds likewise maps every input id,   *)
(* falling back to the integration user.                                   *)
(***************************************************************************)
\* The target owner the claim prescribes for a source owner id, read off the
\* two orgs' tables.
UserResolves(oid) == oid[1] = "005" /\ oid \in o_tgtUsers
QueueResolves(oid) ==
    /\ oid[1] = "00G"
    /\ o_srcGroups[oid] \in DevNames
    /\ o_srcGroups[oid] \in o_tgtQueues

C8_EveryOwnerMapped ==
    o_pc = "returned" =>
        /\ DOMAIN owner_mapping = Range(id_list)
        /\ o_fn = "build_owner_mapping" =>
             \A oid \in Range(id_list) :
                /\ UserResolves(oid) => owner_mapping[oid] = <<"005T", oid>>
                /\ QueueResolves(oid) =>
                      owner_mapping[oid] = <<"00GT", o_srcGroups[oid]>>
                /\ (~UserResolves(oid) /\ ~QueueResolves(oid)) =>
                      owner_mapping[oid] = integration_user_id
        /\ o_fn = "fetch_createdByIds" =>
             \A id \in Range(id_list) :
                owner_mapping[id] = (IF id \in o_tgtUsers THEN <<"005T", id>>
                                     ELSE integration_user_id)

C8_Witness ==
    /\ o_pc = "returned" /\ o_fn = "build_owner_mapping"
    /\ \E u \in Range(id_list) : UserResolves(u) \/ QueueResolves(u)
    /\ \E x \in Range(id_list) : owner_mapping[x] = integration_user_id
    /\ o_i > OwnerBatchSize

(***************************************************************************)
(* C9.  export_activity: every parent id of an activity (WhatId and WhoId) *)
(* is looked up in the target org only against the object type that the id *)
(* refers to in its source record; ids are grouped by concrete type first  *)
(* and no id is queried against another type's table.                      *)
(***************************************************************************)
\* C9 as claimed.  It fails: WhoIds are not grouped by type, all of them are
\* looked up in the Contact table.
C9_LookupsMatchType ==
    \A l \in e_lookups : l[1] = l[2][1]

\* The part of C9 that the code does keep: a WhatId is only looked up in the
\* table of its own What.Type.
C9_WhatLookupsMatchType ==
    \A l \in e_lookups :
        l[2] \in WhatObjects => l[1] = l[2][1]

C9_Witness ==
    /\ e_pc = "done"
    /\ \E l \in e_lookups : l[2] \in WhatObjects
    /\ \E l \in e_lookups : l[2] \in WhoObjects

(***************************************************************************)
(* C10.  migrate_feed sends a FeedComment only after the insert of its     *)
(* parent FeedItem has returned success in the same call, with the id that *)
(* insert returned as FeedItemId; the comments of FeedItems that failed or *)
(* were skipped are never sent.                                            *)
(***************************************************************************)
C10_CommentAfterItsFeedItem ==
    \A p \in DOMAIN t_requests :
        t_requests[p].object = "FeedComment" =>
            \E q \in 1 .. (p - 1) :
                /\ t_requests[q].object = "FeedItem"
                /\ t_requests[q].src = s_comments[t_requests[p].src]
                /\ t_requests[q].returned
                /\ t_requests[q].id = t_requests[p].parent

\* Two FeedItems were migrated and a comment of each was sent, while a
\* bulk call had raised.
C10_Witness ==
    /\ rel_fn = "migrate_feed" /\ rel_pc = "done"
    /\ Cardinality(DOMAIN source_to_target_fi) = 2
    /\ Cardinality({t_requests[p].parent : p \in {q \in DOMAIN t_requests :
                        t_requests[q].object = "FeedComment"}}) = 2
    /\ \E p \in DOMAIN t_requests : t_requests[p].accepted /\ ~t_requests[p].returned

(***************************************************************************)
(* C11.  In migrate_feeditems and export_activity, a source record whose   *)
(* parent is not returned by the source-org condition query of its object  *)
(* is never part of an insert sent to the target org.                      *)
(***************************************************************************)
\* The parent meets the eligibility condition of its object.
EligibleParent(p) == p \in g_eligible \/ p \in g_eligible2

C11_IneligibleNeverInserted ==
    \A b \in DOMAIN g_requests : \A i \in DOMAIN g_requests[b] :
        EligibleParent(g_source[g_requests[b][i]].parent)

\* An insert was sent while a record of the source has a parent that fails
\* the condition although the target holds a record for that parent.
C11_Witness ==
    /\ g_requests # <<>>
    /\ \E r \in DOMAIN g_source :
          /\ ~EligibleParent(g_source[r].parent)
          /\ g_source[r].parent \in g_target
          /\ ~g_source[r].flawed

(***************************************************************************)
(* C12.  migrate_files never creates a ContentDocumentLink for a (target   *)
(* document, target parent) pair for which the target org already holds a  *)
(* link: the target never ends up with two links that have the same        *)
(* ContentDocumentId and LinkedEntityId.                                   *)
(***************************************************************************)
C12_NoDuplicateLink ==
    \A l, k \in t_links : (l[1] = k[1] /\ l[2] = k[2]) => l = k

\* A link of a document was reported a success without a create request:
\* the existence query found the pair in the target.
C12_Witness ==
    \E i \in DOMAIN results_out :
        /\ results_out[i].Type = "File"
        /\ results_out[i].Status = "Success"
        /\ \A p \in DOMAIN t_requests :
              t_requests[p].object = "ContentDocumentLink" =>
                  t_requests[p].src # LinkId(results_out[i].SourceDocumentId,
                                             results_out[i].SourceLinkedEntityId)

(***************************************************************************)
(* C13.  For a source document linked to three parent activities of which  *)
(* exactly two have a target mapping (T1, T2), a call of migrate_files in  *)
(* which no remote call fails uploads the document's binary exactly once,  *)
(* leaves the target with exactly two links for the new document (to T1    *)
(* and to T2) and appends exactly one Failed or Skipped outcome, the one   *)
(* for the unresolvable parent.                                            *)
(***************************************************************************)
\* The entities the source links doc to.
LinkedEntities(doc) == {l[2] : l \in {k \in s_links : k[1] = doc}}

\* doc has a latest version and is linked to three activities and nothing
\* else; two of the activities have a target mapping.
ThreeParentsTwoMapped(doc) ==
    /\ doc \in s_versions
    /\ Cardinality(LinkedEntities(doc)) = 3
    /\ \A e \in LinkedEntities(doc) : EntityType(e) = "Task"
    /\ Cardinality(LinkedEntities(doc) \cap DOMAIN activity_map) = 2

\* The first call of migrate_files has returned and nothing has failed.
FirstFilesCallReturned ==
    rel_fn = "process_file" /\ start = 0 /\ rel_pc = "chunk_feed" /\ faults = 0

\* The outcomes of doc that are not a success.
UnsuccessfulOutcomes(doc) ==
    {i \in DOMAIN results_out :
        results_out[i].SourceDocumentId = doc /\ results_out[i].Status # "Success"}

C13_OneUploadTwoLinksOneFailure ==
    \A doc \in Docs :
        (FirstFilesCallReturned /\ ThreeParentsTwoMapped(doc)) =>
            /\ Cardinality(Uploads(doc)) = 1
            /\ doc \in DOMAIN doc_cache
            /\ {l[2] : l \in {k \in t_links : k[1] = doc_cache[doc].doc_id}} =
                   {activity_map[e] : e \in LinkedEntities(doc) \cap DOMAIN activity_map}
            /\ Cardinality({k \in t_links : k[1] = doc_cache[doc].doc_id}) = 2
            /\ \E i \in UnsuccessfulOutcomes(doc) :
                  /\ UnsuccessfulOutcomes(doc) = {i}
                  /\ results_out[i].Status \in {"Failed", "Skipped"}
                  /\ results_out[i].SourceActivityId \in
                         LinkedEntities(doc) \ DOMAIN activity_map

C13_Witness ==
    \E doc \in Docs : FirstFilesCallReturned /\ ThreeParentsTwoMapped(doc)

(***************************************************************************)
(* C17.  safe_bulk_insert never raises; when the bulk insert raises on     *)
(* every attempt it returns one failure entry per input record: success    *)
(* false, id None and the message of the exception.                        *)
(***************************************************************************)
C17_ReturnsOneFailurePerRecord ==
    r_via = "safe_bulk_insert" =>
        /\ r_pc # "raised"
        /\ (r_pc = "returned" /\ AlwaysFails) =>
              /\ Len(r_result) = r_records
              /\ \A i \in 1 .. r_records :
                    /\ r_result[i].success = FALSE
                    /\ r_result[i].id = None
                    /\ r_result[i].errors = <<Exc(max_retries + 1)[2]>>

\* safe_bulk_insert has returned for several records after the insert
\* raised on every attempt, retries included.
C17_Witness ==
    /\ r_via = "safe_bulk_insert" /\ r_pc = "returned" /\ AlwaysFails
    /\ r_records > 1 /\ max_retries > 0

(***************************************************************************)
(* C16.  A related record (attachment, file link, feed item) whose parent  *)
(* activity has no entry in activity_map is recorded in results_out with   *)
(* status Skipped, not Failed, and the reason 'No target parent mapping'.  *)
(***************************************************************************)
\* The outcomes of records whose parent activity is not in activity_map.
UnmappedParentOutcomes ==
    {i \in DOMAIN results_out :
        /\ results_out[i].SourceActivityId # None
        /\ results_out[i].SourceActivityId \notin DOMAIN activity_map}

C16_UnmappedParentIsSkipped ==
    \A i \in UnmappedParentOutcomes :
        /\ results_out[i].Status = "Skipped"
        /\ results_out[i].Error = "No target parent mapping"

(***************************************************************************)
(* C14.  Running the related-data migration a second time with the same    *)
(* inputs against the target state left by the first run creates no second *)
(* link between the same migrated source document and the same target      *)
(* parent.                                                                 *)
(***************************************************************************)
\* The source document a target document is a copy of.
SourceDocumentOf(tgt_doc) == t_requests[tgt_doc[2]].src

\* One input file, and no remote call has failed.
PlainRuns == Len(input_files) = 1 /\ faults = 0

C14_RerunCreatesNoDuplicateLink ==
    (rel_fn = "main" /\ PlainRuns) =>
        \A l, k \in t_links :
            (SourceDocumentOf(l[1]) = SourceDocumentOf(k[1]) /\ l[2] = k[2]) => l = k

(***************************************************************************)
(* C15.  Within one invocation of main over all INPUT_FILES a source       *)
(* ContentDocument is uploaded at most once: a document linked from        *)
(* activities listed in two input files is uploaded while the first file   *)
(* is processed and only linked again while the second is.                 *)
(***************************************************************************)
C15_UploadedOncePerMainRun ==
    (rel_fn = "main" /\ m_run = 1 /\ faults = 0) =>
        \A doc \in Docs : Cardinality(Uploads(doc)) < 2

(***************************************************************************)
(* C18.  When a remote call inside migrate_attachments, migrate_files or   *)
(* migrate_feed fails for good, process_file does not terminate: the       *)
(* units affected are recorded with a Failed outcome and processing        *)
(* continues with the next chunk.                                          *)
(***************************************************************************)
FailedOutcomes == {i \in DOMAIN results_out : results_out[i].Status = "Failed"}

\* process_file has gone through all chunks of a file whose activities all
\* have a ContentDocument.
ProcessFileDone ==
    /\ rel_fn = "process_file" /\ rel_pc = "done"
    /\ \A a \in Range(src_ids_all) : \E l \in s_links : l[2] = a

C18_FailureLeavesFailedOutcome ==
    /\ rel_fn = "process_file" => rel_pc # "raised"
    /\ (ProcessFileDone /\ faults > 0) => FailedOutcomes # {}

(***************************************************************************)
(* C19.  When process_file finishes, the output CSV contains every outcome *)
(* appended to all_results during the run, those of a chunk in which a     *)
(* later stage raised and those of the last chunk included.                *)
(***************************************************************************)
C19_CheckpointHoldsAllResults ==
    (rel_fn = "process_file" /\ rel_pc = "done" /\ results_out # <<>>) =>
        /\ InputFile \in DOMAIN output_csv
        /\ output_csv[InputFile] = results_out

(***************************************************************************)
(* C20.  When an input mapping file listed in INPUT_FILES does not exist,  *)
(* the error is surfaced at once and the run aborts: no later file is      *)
(* processed and the missing file is not counted as processed.             *)
(***************************************************************************)
\* The input files main has dealt with that do not exist.
MissingFilesPassed ==
    {k \in 1 .. Len(input_files) : k < file_no /\ input_files[k] \notin DOMAIN files_dir}

C20_MissingFileAbortsRun ==
    (rel_fn = "main" /\ MissingFilesPassed # {}) =>
        /\ rel_pc = "raised"
        /\ processed_files + Cardinality(MissingFilesPassed) < file_no

(***************************************************************************)
(* C21.  Every retry loop terminates when the remote operation keeps       *)
(* failing: retry_salesforce_operation after max_retries+1 calls,          *)
(* query_all and safe_query_all after MAX_RETRIES+1 calls of what they     *)
(* wrap, bulk_insert_with_retry after at most max_retries rounds,          *)
(* insert_emailmessages_with_retry after max_retries attempts per batch;   *)
(* no remote call is retried without bound.                                *)
(***************************************************************************)
\* How often the batch sent as request number i has been sent up to then.
AttemptsOfBatch(i) ==
    Cardinality({j \in 1 .. i : g_requests[j] = g_requests[i]})

QueryAlwaysFails == q_failFirst >= (MAX_RETRIES + 1) * WrappedCalls(q_fn)

LoopsBounded ==
    /\ r_calls <= max_retries + 1
    /\ (RetryEnded /\ AlwaysFails) => r_calls = max_retries + 1
    /\ q_calls <= MAX_RETRIES + 1
    /\ q_remote <= (MAX_RETRIES + 1) * WrappedCalls(q_fn)
    /\ (q_pc # "loop" /\ QueryAlwaysFails) => (q_pc = "raised" /\ q_calls = MAX_RETRIES + 1)
    /\ Len(i_rounds) <= ImportMaxRetries
    /\ \A i \in DOMAIN g_requests : AttemptsOfBatch(i) <= EmMaxRetries

\* How far a routine has come: the calls it has made plus the rank of its
\* position.
PcRank(pc) ==
    CASE pc \in {"idle", "loop", "prepare", "fetch"} -> 0
      [] pc \in {"op_returned", "op_raised", "insert"} -> 1
      [] pc = "log" -> 2
      [] OTHER -> 3

Variant ==
    r_calls + PcRank(r_pc) + q_calls + PcRank(q_pc) + Len(i_rounds) + PcRank(i_pc)
        + Len(g_requests) + PcRank(g_pc)

\* The counters are bounded, and every step of a loop raises the variant,
\* which is bounded with them: no loop runs forever.
C21_RetryLoopsTerminate == []LoopsBounded /\ [][Variant' > Variant]_vars

\* safe_query_all has given up on a query that kept failing.
C21_Witness ==
    /\ q_fn = "safe_query_all" /\ q_pc = "raised" /\ QueryAlwaysFails
    /\ q_calls = MAX_RETRIES + 1
    /\ q_remote = (MAX_RETRIES + 1) * (SafeQueryMaxRetries + 1)

(***************************************************************************)
(* C22.  In the parallel content migration (migrate_versions of            *)
(* CdlMigration and of MigrateCDlPart2), under every interleaving of the   *)
(* worker threads the shared results list and the output csv writer are    *)
(* mutated only by the orchestrating thread; the worker functions only     *)
(* read the shared mapping and link metadata and return their own result   *)
(* entries.                                                                *)
(***************************************************************************)
\* The entries of the documents already collected, per document in the
\* order its worker made them.
EntriesOf(d) == SelectAt(p_results, {i \in DOMAIN p_results : p_results[i].Old_ContentDocumentId = d})

C22_OnlyOrchestratorMutates ==
    /\ \A w \in p_writes : w[1] = MainThread
    /\ \A r \in p_reads : r[2] = "link_meta"
    /\ \A d \in DOMAIN futures :
          /\ \A i \in DOMAIN w_results[d] : w_results[d][i].Old_ContentDocumentId = d
          /\ EntriesOf(d) = (IF futures[d] = "collected" THEN w_results[d] ELSE <<>>)
    /\ p_csv = (IF p_fn = "MigrateCDlPart2" THEN p_results ELSE <<>>)

\* Two workers have run side by side, one result is in while the other
\* worker has entries of its own that are not collected yet.
C22_Witness ==
    /\ \E d, e \in DOMAIN futures :
          /\ d # e /\ futures[d] = "collected" /\ w_results[d] # <<>>
          /\ futures[e] = "link" /\ w_results[e] # <<>>
    /\ p_writes # {} /\ p_reads # {}

(***************************************************************************)
(* C23.  For every input list of length M and every chunk size N >= 1,     *)
(* the chunking helpers (_chunk_list, chunked, chunks) yield exactly       *)
(* ceil(M/N) chunks, each non-empty and of size <= N, whose concatenation  *)
(* in order equals the input; an empty input yields no chunk.              *)
(***************************************************************************)
RECURSIVE Concatenation(_)
Concatenation(ss) == IF ss = <<>> THEN <<>> ELSE Head(ss) \o Concatenation(Tail(ss))

CeilDiv(m, n) == (m + n - 1) \div n

C23_ChunksPartitionTheInput ==
    /\ \A k \in DOMAIN c_chunks : c_chunks[k] # <<>> /\ Len(c_chunks[k]) <= c_size
    /\ c_pc = "done" =>
          /\ Len(c_chunks) = CeilDiv(Len(c_items), c_size)
          /\ Concatenation(c_chunks) = c_items
          /\ (c_items = <<>> => c_chunks = <<>>)

\* A list that does not divide evenly: the last chunk is the short one.
C23_Witness ==
    /\ c_pc = "done" /\ Len(c_items) = MaxChunkItems /\ c_size = MaxChunkSize
    /\ Len(c_chunks) = CeilDiv(MaxChunkItems, MaxChunkSize)
    /\ Len(c_chunks[Len(c_chunks)]) < c_size

(***************************************************************************)
(* C24.  In retry_salesforce_operation and CdlMigration.query_all, the     *)
(* wait before the k-th retry (after the k-th consecutive failure, k >= 1) *)
(* is delay * 2^(k-1) seconds, and no wait happens after the final failed  *)
(* attempt.                                                                *)
(***************************************************************************)
\* The calls that have raised so far.
RetryFailures == Cardinality({n \in 1 .. r_calls : OperationRaises(n)})

QueryFailures == IF q_pc = "returned" THEN q_calls - 1 ELSE q_calls

Min(a, b) == IF a < b THEN a ELSE b

\* The k-th wait is delay * 2^(k-1); there is one wait per failure, except
\* for failure number max_retries + 1, after which the call gives up.
C24_ExponentialBackoff ==
    /\ \A k \in DOMAIN r_waits : r_waits[k] = delay * Pow2(k - 1)
    /\ \A k \in DOMAIN q_waits : q_waits[k] = RETRY_SLEEP_SECS * Pow2(k - 1)
    /\ Len(r_waits) = Min(RetryFailures, max_retries)
    /\ Len(q_waits) = Min(QueryFailures, MAX_RETRIES)

\* query_all has given up: it slept before each of its MAX_RETRIES retries
\* and not after the last failure.
C24_Witness ==
    /\ q_fn = "query_all" /\ q_pc = "raised"
    /\ q_calls = MAX_RETRIES + 1 /\ Len(q_waits) = MAX_RETRIES
    /\ q_waits[MAX_RETRIES] = RETRY_SLEEP_SECS * Pow2(MAX_RETRIES - 1)

(***************************************************************************)
(* C25.  Every foreign-key field of a payload that import_activities       *)
(* submits to the target (WhatId, WhoId, OwnerId, Request__c) holds a      *)
(* target-org id or is absent; an id of the source org is never submitted  *)
(* as a foreign key.                                                       *)
(***************************************************************************)
ForeignKeys == {"WhatId", "WhoId", "OwnerId", "Request__c"}

ActivityPayloads ==
    IF b_fn = "build_record" THEN {b_submitted[i] : i \in DOMAIN b_submitted} ELSE {}

\* No foreign key of a submitted activity payload holds a source-org id.
C25_ForeignKeysAreTargetIds ==
    \A p \in ActivityPayloads : \A f \in ForeignKeys \cap DOMAIN p : IsTargetId(p[f])

\* The same for the three keys build_record always substitutes.
C25_ParentAndOwnerAreTargetIds ==
    \A p \in ActivityPayloads :
        \A f \in {"WhatId", "WhoId", "OwnerId"} \cap DOMAIN p : IsTargetId(p[f])

\* A Task about a work order that also names a Request: the payload carries
\* the source Request id.
C25_SourceRequestSubmitted ==
    /\ b_fn = "build_record" /\ b_pc = "submitted" /\ b_object = "Task"
    /\ b_input.WhatId = SrcId("0WO") /\ b_input.Request__c = SrcId("a19")
    /\ b_submitted[1].Request__c = SrcId("a19")

(***************************************************************************)
(* C26.  Every insert payload built by build_record (activities), by       *)
(* EmailMessageMigration.export_activity and by                            *)
(* getEmailTemplate.export_activity carries the source record's id in the  *)
(* legacy-id field Card_Legacy_Id__c and has no Id field.                  *)
(***************************************************************************)
CarriesLegacyId(p, source_record) ==
    /\ "Card_Legacy_Id__c" \in DOMAIN p
    /\ p["Card_Legacy_Id__c"] = source_record.Id
    /\ "Id" \notin DOMAIN p

\* Every payload built by one of the three routines carries the legacy id.
C26_PayloadCarriesLegacyId ==
    (b_fn # "sanitize_for_insert" /\ b_pc \in {"built", "submitted"})
        => CarriesLegacyId(b_payload, b_input)

\* The same for build_record and EmailMessageMigration.export_activity.
C26_ActivityAndEmailCarryLegacyId ==
    (/\ b_fn \in {"build_record", "EmailMessageMigration.export_activity"}
     /\ b_pc \in {"built", "submitted"})
        => CarriesLegacyId(b_payload, b_input)

\* getEmailTemplate.export_activity has built a payload without the field.
C26_TemplatePayloadWithoutLegacyId ==
    /\ b_fn = "getEmailTemplate.export_activity" /\ b_pc = "built"
    /\ "Card_Legacy_Id__c" \notin DOMAIN b_payload
    /\ "Id" \notin DOMAIN b_payload

(***************************************************************************)
(* C27.  getEmailTemplate.sanitize_for_insert returns a copy that contains *)
(* no field of READ_ONLY_FIELDS and none of the helper keys                *)
(* (Target_FromId, Target_RelatedToId, Target_EmailTemplateId, RelatedTo,  *)
(* AttachmentIds), keeps every other field with its value unchanged, and   *)
(* does not modify its argument.                                           *)
(***************************************************************************)
StrippedKeys ==
    READ_ONLY_FIELDS \cup {"Target_FromId", "Target_RelatedToId",
                           "Target_EmailTemplateId", "RelatedTo", "AttachmentIds"}

\* The result has exactly the other fields of the argument, with their
\* values, and the argument is as it was.
C27_SanitizeStripsAndCopies ==
    (b_fn = "sanitize_for_insert" /\ b_pc = "built") =>
        /\ DOMAIN b_payload \cap StrippedKeys = {}
        /\ DOMAIN b_payload = DOMAIN b_input \ StrippedKeys
        /\ \A f \in DOMAIN b_payload : b_payload[f] = b_input[f]
        /\ b_record = b_input

\* A record with a read-only field, a helper key and two other fields has
\* been sanitized.
C27_Witness ==
    /\ b_fn = "sanitize_for_insert" /\ b_pc = "built"
    /\ DOMAIN b_input = {"Id", "AttachmentIds", "Subject", "FromId"}
    /\ DOMAIN b_payload = {"Subject", "FromId"}

(***************************************************************************)
(* C28.  After related_recordid_mapping (mappings.py and the               *)
(* FeedItemMigration variant) has processed a batch of feed items or       *)
(* comments, no record body still contains an inline <img> reference to a  *)
(* source-org content id (sfdc://...): the reference is turned into a      *)
(* RelatedRecordId when the referenced document's version is known, and    *)
(* the markup is removed entirely when it is not.                          *)
(***************************************************************************)
BodyOf(rec) == rec[BodyField(m_fn, object_type)]

\* No body of a processed batch keeps an sfdc:// image; a record whose
\* first reference has a known version has that version as RelatedRecordId.
C28_NoInlineImageReferenceLeft ==
    m_pc = "returned" =>
        \A i \in DOMAIN m_records :
            /\ FindSfdc(BodyOf(m_records[i])) = <<>>
            /\ LET refs == FindSfdc(BodyOf(m_input[i]))
               IN  (refs # <<>> /\ refs[1] \in m_latest)
                       => m_records[i].RelatedRecordId = LatestVersion(refs[1])

\* The same for the variant of mappings.py alone.
C28_MappingsVariantStripsMarkup ==
    (m_fn = "mappings" /\ m_pc = "returned") =>
        \A i \in DOMAIN m_records :
            /\ FindSfdc(BodyOf(m_records[i])) = <<>>
            /\ LET refs == FindSfdc(BodyOf(m_input[i]))
               IN  (refs # <<>> /\ refs[1] \in m_latest)
                       => m_records[i].RelatedRecordId = LatestVersion(refs[1])

\* The FeedItemMigration variant has returned a feed item whose image
\* refers to a document without a known version: the markup is still there.
C28_UnmappedImageKept ==
    /\ m_fn = "FeedItemMigration" /\ m_pc = "returned"
    /\ "069A" \notin m_latest
    /\ BodyOf(m_input[1]) = <<SfdcImg("069A")>>
    /\ BodyOf(m_records[1]) = <<SfdcImg("069A")>>
    /\ m_records[1].RelatedRecordId = None

(***************************************************************************)
(* C29.  bulk_insert_with_retry: in each round after the first, exactly    *)
(* the records that were reported failed in the previous round are         *)
(* resubmitted; a record reported successful is never submitted again, and *)
(* at most max_retries rounds are made.                                    *)
(***************************************************************************)
\* all_results holds the results of the rounds one after the other: the
\* results of round k.
RECURSIVE RoundOffset(_)
RoundOffset(k) == IF k <= 1 THEN 0 ELSE RoundOffset(k - 1) + Len(i_rounds[k - 1])

RoundResults(k) == Slice(all_results, RoundOffset(k), Len(i_rounds[k]))

ReportedFailed(k) ==
    SelectAt(i_rounds[k], {i \in DOMAIN i_rounds[k] : ~RoundResults(k)[i].success})

ReportedSuccessful(k) ==
    {i_rounds[k][i] : i \in {j \in DOMAIN i_rounds[k] : RoundResults(k)[j].success}}

\* Round k + 1 submits the failures of round k, in their order; nothing
\* reported successful appears in a later round; the rounds are at most
\* max_retries.
C29_RetryRoundsResubmitFailures ==
    /\ \A k \in 2 .. Len(i_rounds) : i_rounds[k] = ReportedFailed(k - 1)
    /\ \A k \in DOMAIN i_rounds : \A l \in DOMAIN i_rounds :
          k < l => \A i \in DOMAIN i_rounds[l] : i_rounds[l][i] \notin ReportedSuccessful(k)
    /\ Len(i_rounds) <= ImportMaxRetries

\* Three records went out in the first round, one was created, and the two
\* others, and only they, went out in the second round.
C29_Witness ==
    /\ Len(i_rounds) >= 2
    /\ i_rounds[1] = <<ActivityId(1), ActivityId(2), ActivityId(3)>>
    /\ RoundResults(1)[2].success
    /\ i_rounds[2] = <<ActivityId(1), ActivityId(3)>>

(***************************************************************************)
(* C30.  bulk_insert_with_retry returns exactly one result per input       *)
(* record, in input order, holding the final outcome of that record after  *)
(* all retry rounds (so that callers may pair records and results          *)
(* positionally).                                                          *)
(***************************************************************************)
\* The record was created in the target in some round.
WasCreated(rec) == \E c \in i_created : c[2] = rec

\* After the call the results pair with the records handed in: as many
\* results as records, result i a success exactly when record i was created.
C30_OneResultPerRecordInOrder ==
    i_pc = "log" =>
        /\ Len(all_results) = Len(records_to_insert)
        /\ \A i \in DOMAIN all_results :
              /\ all_results[i].success = WasCreated(records_to_insert[i])
              /\ all_results[i].success =>
                    <<all_results[i].id, records_to_insert[i]>> \in i_created

\* The same when the only round was the first one and no call raised.
C30_SingleRoundPairsPositionally ==
    (/\ i_pc = "log" /\ Len(i_rounds) = 1
     /\ \A i \in DOMAIN all_results : all_results[i] # RaisedResult) =>
        /\ Len(all_results) = Len(records_to_insert)
        /\ \A i \in DOMAIN all_results :
              /\ all_results[i].success = WasCreated(records_to_insert[i])
              /\ all_results[i].success =>
                    <<all_results[i].id, records_to_insert[i]>> \in i_created

\* Two records, the first rejected and then created in the second round:
\* three results come back, the first of them the stale failure.
C30_RetriedRecordHasTwoResults ==
    /\ i_pc = "log"
    /\ records_to_insert = <<ActivityId(1), ActivityId(2)>>
    /\ Len(all_results) = 3
    /\ ~all_results[1].success /\ all_results[2].success /\ all_results[3].success
    /\ WasCreated(ActivityId(1))

(***************************************************************************)
(* C31.  bulk_insert_with_retry never reports as failed a record that was  *)
(* created in the target org: when the bulk call of a later sub-batch      *)
(* raises after earlier sub-batches of the same round were inserted        *)
(* successfully, the already inserted records are not reported as          *)
(* failures.                                                               *)
(***************************************************************************)
\* Some round reported the record as inserted.
ReportedCreated(rec) == \E k \in DOMAIN i_rounds : rec \in ReportedSuccessful(k)

\* Once the call has returned, every record created in the target has a
\* successful result.
C31_CreatedNeverReportedFailed ==
    i_pc = "log" =>
        \A i \in DOMAIN records_to_insert :
            WasCreated(records_to_insert[i]) => ReportedCreated(records_to_insert[i])

\* The same when no bulk call raised.
C31_CreatedReportedWhenNoCallRaises ==
    (i_pc = "log" /\ \A i \in DOMAIN all_results : all_results[i] # RaisedResult) =>
        \A i \in DOMAIN records_to_insert :
            WasCreated(records_to_insert[i]) => ReportedCreated(records_to_insert[i])

\* Two records in sub-batches of one: the first was inserted, the call for
\* the second raised, and both results are failures.
C31_InsertedReportedFailed ==
    /\ i_pc = "log"
    /\ records_to_insert = <<ActivityId(1), ActivityId(2)>>
    /\ WasCreated(ActivityId(1))
    /\ all_results = <<RaisedResult, RaisedResult>>

(***************************************************************************)
(* C32.  _bulk_insert_with_fallback creates each record of the batch in    *)
(* the target org at most once, also when the bulk call raises after the   *)
(* target has already accepted some of the records and the one-by-one REST *)
(* fallback then runs over the whole batch.                                *)
(***************************************************************************)
\* The requests of _bulk_insert_with_fallback that created a record.
FallbackCreations ==
    {i \in DOMAIN t_requests :
        t_requests[i].object \in {"FeedItem", "FeedComment"} /\ t_requests[i].accepted}

\* No source record was created twice in the target.
C32_CreatedAtMostOnce ==
    \A i \in FallbackCreations : \A j \in FallbackCreations :
        t_requests[i].src = t_requests[j].src => i = j

\* The same for the records the bulk API created.
C32_BulkCreatesAtMostOnce ==
    \A i \in FallbackCreations : \A j \in FallbackCreations :
        (/\ t_requests[i].api = "bulk" /\ t_requests[j].api = "bulk"
         /\ t_requests[i].src = t_requests[j].src) => i = j

\* A feed item was created by the bulk call that raised and again by the
\* REST fallback.
C32_CreatedByBulkAndByRest ==
    \E i \in FallbackCreations : \E j \in FallbackCreations :
        /\ t_requests[i].src = t_requests[j].src
        /\ t_requests[i].api = "bulk" /\ ~t_requests[i].returned
        /\ t_requests[j].api = "rest"

(***************************************************************************)
(* C33.  Whenever the target org returns two records with the same legacy  *)
(* id but different record ids (in one chunk or in different chunks),      *)
(* fetch_target_mappings does not silently keep one of them: the conflict  *)
(* is detected and treated as an invariant violation.                      *)
(***************************************************************************)
\* The chunks whose query returned: chunk number k starts at i = (k-1) *
\* SOQL_SIZE.
AnsweredChunks == {k \in DOMAIN f_queries : (k - 1) * SOQL_SIZE \notin f_failed}

\* The target records the queries returned.
ReturnedRecords == UNION {QueryLegacyIn(f_target, f_queries[k]) : k \in AnsweredChunks}

\* Two returned records carry the same legacy id.
ConflictReturned ==
    \E t1 \in ReturnedRecords : \E t2 \in ReturnedRecords :
        t1 # t2 /\ f_target[t1] = f_target[t2]

\* The call does not return a map when a conflict was returned to it.
C33_ConflictIsDetected ==
    (f_fn = "fetch_target_mappings" /\ f_pc = "returned") => ~ConflictReturned

\* Two target records with the legacy id of the first source id were
\* returned, and the call returned a map that holds one of them.
C33_ConflictSilentlyResolved ==
    /\ f_fn = "fetch_target_mappings" /\ f_pc = "returned"
    /\ f_target[<<"tgt", 1>>] = <<"src", 1>> /\ f_target[<<"tgt", 2>>] = <<"src", 1>>
    /\ {<<"tgt", 1>>, <<"tgt", 2>>} \subseteq ReturnedRecords
    /\ <<"src", 1>> \in DOMAIN mapping

(***************************************************************************)
(* C34.  fetch_target_mappings never raises: when the query of one chunk   *)
(* fails, that chunk is skipped, the pairs returned by all other chunks    *)
(* are still in the result, and the ids of the failed chunk are absent     *)
(* from the map exactly like ids that have no target record.               *)
(***************************************************************************)
\* The ids of the chunks that were answered, and of those that were not.
AnsweredIds == UNION {Range(f_queries[k]) : k \in AnsweredChunks}
FailedIds == UNION {Range(f_queries[k]) : k \in DOMAIN f_queries \ AnsweredChunks}

\* The call never raises; every failed chunk is passed over and the loop
\* goes on; an id that an answered chunk found is a key of the map, bound
\* to a target record with that legacy id; an id asked for only in failed
\* chunks is no key of the map.
C34_FailedChunkIsSkipped ==
    f_fn = "fetch_target_mappings" =>
        /\ f_pc # "raised"
        /\ Len(f_queries) * SOQL_SIZE = f_i
        /\ \A id \in AnsweredIds :
              HasTargetRecord(id) =>
                  /\ id \in DOMAIN mapping
                  /\ mapping[id] \in DOMAIN f_target /\ f_target[mapping[id]] = id
        /\ \A id \in FailedIds \ AnsweredIds : id \notin DOMAIN mapping

\* The first of two chunks failed, the second was answered: the call
\* returned a map with an id of the second chunk and without the ids of the
\* first, one of which has a target record.
C34_Witness ==
    /\ f_fn = "fetch_target_mappings" /\ f_pc = "returned"
    /\ Len(f_queries) = 2 /\ f_failed = {0}
    /\ \E id \in Range(f_queries[2]) : id \in DOMAIN mapping
    /\ \E id \in Range(f_queries[1]) : HasTargetRecord(id) /\ id \notin DOMAIN mapping

(***************************************************************************)
(* C35.  fetch_target_mappings queries each distinct source id at most     *)
(* once per call, even when the given id collection contains repeated ids: *)
(* duplicates are removed before the ids are split into chunks.            *)
(***************************************************************************)
\* The places of the IN clauses sent so far that name the id.
QueriedAt(id) ==
    {<<k, i>> \in (DOMAIN f_queries) \X (1 .. SOQL_SIZE) :
        i \in DOMAIN f_queries[k] /\ f_queries[k][i] = id}

C35_DistinctIdsQueriedOnce ==
    (/\ f_fn = "fetch_target_mappings"
     /\ \A i, j \in DOMAIN parent_list : parent_list[i] = parent_list[j] => i = j) =>
        \A id \in Range(parent_list) : Cardinality(QueriedAt(id)) <= 1

\* A list that names the first source id in its first and in its second
\* chunk: the id went out in both queries.
C35_RepeatedIdQueriedTwice ==
    /\ f_fn = "fetch_target_mappings" /\ f_pc = "returned"
    /\ parent_list = <<<<"src", 1>>, <<"src", 2>>, <<"src", 1>>>>
    /\ Len(f_queries) = 2
    /\ <<"src", 1>> \in Range(f_queries[1]) \cap Range(f_queries[2])

(***************************************************************************)
(* C36.  CdlMigration.migrate_versions: under every interleaving of the    *)
(* MAX_WORKERS worker threads, each distinct ContentDocumentId of the      *)
(* mapping file is uploaded to the target at most once however many        *)
(* mapping rows reference it, and the multiset of result rows does not     *)
(* depend on the order in which the workers complete.                      *)
(***************************************************************************)
\* How often e occurs in the sequence s.
CountIn(s, e) == Cardinality({i \in DOMAIN s : s[i] = e})

\* The rows migrate_versions returns for a document whose upload went
\* through: one per mapping row of the document.
RowsOf(d) ==
    [i \in DOMAIN by_doc[d] |->
        [Old_ContentDocumentId |-> d, New_ContentDocumentId |-> NewDocId(d),
         Target_Parent_Id |-> by_doc[d][i].Target_Parent_Id]]

\* The documents whose worker got through download and upload.
Migrated_docs == {d \in DOMAIN futures : futures[d] = "collected" /\ w_results[d] # <<>>}

\* No document has two versions in the target; once every worker is
\* collected, the result holds the rows of the migrated documents, each as
\* often as the mapping file has it, whatever the order of collection.
C36_OneUploadPerDocument ==
    p_fn = "CdlMigration" =>
        /\ \A d \in DOMAIN t_versions : t_versions[d] <= 1
        /\ p_pc = "done" =>
              /\ Len(p_results) = Cardinality({<<d, i>> \in Migrated_docs \X (1 .. 2) :
                                                   i \in DOMAIN by_doc[d]})
              /\ \A d \in Migrated_docs : \A i \in DOMAIN by_doc[d] :
                    CountIn(p_results, RowsOf(d)[i]) = CountIn(RowsOf(d), RowsOf(d)[i])

\* Two documents, the first with two mapping rows, were uploaded once each;
\* the worker of the second completed first.
C36_Witness ==
    /\ p_fn = "CdlMigration" /\ p_pc = "done"
    /\ DOMAIN by_doc = {<<"069", 1>>, <<"069", 2>>}
    /\ Len(by_doc[<<"069", 1>>]) = 2
    /\ t_versions[<<"069", 1>>] = 1 /\ t_versions[<<"069", 2>>] = 1
    /\ Len(p_results) = 3
    /\ p_results[1].Old_ContentDocumentId = <<"069", 2>>

(***************************************************************************)
(* C37.  Every result row that CdlMigration.migrate_one_document returns   *)
(* with a non-empty Target_Parent_Id corresponds to a ContentDocumentLink  *)
(* that was successfully created in the target org; a failed link creation *)
(* does not yield a row indistinguishable from a successful one.           *)
(***************************************************************************)
\* Entry i of a worker's list is the entry of row i of its document.
C37_RowWithParentHasLink ==
    p_fn = "CdlMigration" =>
        \A d \in DOMAIN w_results : \A i \in DOMAIN w_results[d] :
            w_results[d][i].Target_Parent_Id # "" => <<d, i>> \in t_cdls

\* The converse: every link created has its row.
C37_LinkHasRow ==
    p_fn = "CdlMigration" =>
        \A l \in t_cdls :
            /\ l[2] \in DOMAIN w_results[l[1]]
            /\ w_results[l[1]][l[2]].Target_Parent_Id # ""

\* create_cdl failed for the row of the first document, and the worker
\* returned the row with its Target_Parent_Id.
C37_FailedLinkHasRow ==
    /\ p_fn = "CdlMigration" /\ p_pc = "done"
    /\ DOMAIN by_doc = {<<"069", 1>>}
    /\ by_doc[<<"069", 1>>] = <<MapRow(ParParent, TRUE)>>
    /\ t_cdls = {}
    /\ CountIn(p_results, ResultEntry(<<"069", 1>>, ParParent)) = 1

(***************************************************************************)
(* C38.  MigrateCDlPart2.migrate_versions is resumable: when it is run     *)
(* again after an interrupted run, a document whose row is already present *)
(* in the output mapping CSV is not downloaded and uploaded a second time. *)
(***************************************************************************)
\* The documents that have a row in the output file.
InOutputCsv(d) == \E i \in DOMAIN p_csv : p_csv[i].Old_ContentDocumentId = d

\* A document with a row in the output file has one version in the target.
C38_WrittenDocumentNotUploadedAgain ==
    p_fn = "MigrateCDlPart2" =>
        \A d \in DOMAIN t_versions : InOutputCsv(d) => t_versions[d] <= 1

\* The same within the first run.
C38_OneUploadWithinARun ==
    (p_fn = "MigrateCDlPart2" /\ p_run = 1) =>
        \A d \in DOMAIN t_versions : t_versions[d] <= 1

\* The second run uploaded a document again whose row the first run had
\* written, and wrote a second row for it.
C38_UploadedAgainOnRerun ==
    /\ p_fn = "MigrateCDlPart2" /\ p_run = 2
    /\ \E d \in DOMAIN t_versions :
          /\ t_versions[d] = 2
          /\ Cardinality({i \in DOMAIN p_csv : p_csv[i].Old_ContentDocumentId = d}) = 2

(***************************************************************************)
(* C39.  In one run of fetchCDL1.main, each source ContentDocumentLink id  *)
(* is written at most once to the mapping and unmatched CSVs, even when    *)
(* the document it belongs to is linked to parents that fall into          *)
(* different parent chunks or different object types.                      *)
(***************************************************************************)
\* The rows written for a link, in either file.
WrittenFor(link) == {w \in l_out : w[1].Source_ContentDocumentLink_Id = link}

\* No link has two rows.
C39_LinkWrittenAtMostOnce ==
    \A link \in l_links : Cardinality(WrittenFor(link)) <= 1

\* The same for the links to parents.
C39_ParentLinkWrittenAtMostOnce ==
    \A link \in l_links :
        LinkedEntityType(link) # "User" => Cardinality(WrittenFor(link)) <= 1

\* A document linked to the two Accounts, which fall into different
\* chunks, and to a User: the User's link was written once per chunk.
C39_UserLinkWrittenTwice ==
    /\ l_pc = "done"
    /\ l_links = {<<<<"069", 1>>, <<"001", 1>>>>, <<<<"069", 1>>, <<"001", 2>>>>,
                  <<<<"069", 1>>, <<"005", 1>>>>}
    /\ Cardinality(WrittenFor(<<<<"069", 1>>, <<"005", 1>>>>)) = 2
    /\ Cardinality(WrittenFor(<<<<"069", 1>>, <<"001", 1>>>>)) = 1

(***************************************************************************)
(* C40.  data_masking_batch: on every retry round the records resubmitted  *)
(* to the bulk update are the masked update payloads (Id plus masked       *)
(* fields) of exactly the records that failed in the previous round, and   *)
(* at most max_retries update rounds are made per batch.                   *)
(***************************************************************************)
\* The update payloads of the records that failed in round r.
FailedPayloads(r) ==
    LET ids == {dm_rounds[r].sent[i].Id : i \in dm_rounds[r].bad}
    IN  SelectAt(dm_updates, {i \in DOMAIN dm_updates : dm_updates[i].Id \in ids})

C40_RetryResubmitsMaskedPayloads ==
    /\ Len(dm_rounds) <= MaskMaxRetries
    /\ \A r \in 2 .. Len(dm_rounds) : dm_rounds[r].sent = FailedPayloads(r - 1)

\* What does hold: the first round sends the payloads, a retry round names
\* exactly the records that failed in the round before it, and there are
\* at most max_retries rounds.
C40_RetryNamesFailedRecords ==
    /\ Len(dm_rounds) <= MaskMaxRetries
    /\ Len(dm_rounds) >= 1 => dm_rounds[1].sent = dm_updates
    /\ \A r \in 2 .. Len(dm_rounds) :
          [i \in DOMAIN dm_rounds[r].sent |-> dm_rounds[r].sent[i].Id]
            = [i \in DOMAIN FailedPayloads(r - 1) |-> FailedPayloads(r - 1)[i].Id]

\* A retry round whose records carry the Id and the errors of the round
\* before it, and none of the masked fields.
C40_RetrySentWithoutMaskedFields ==
    /\ Len(dm_rounds) = 2
    /\ Len(dm_updates) = 2
    /\ dm_rounds[1].bad = {2}
    /\ dm_rounds[2].sent = <<[Id |-> dm_updates[2].Id, errors |-> <<"error">>]>>
    /\ dm_updates[2].Phone = <<"0000000000">>

====
